---- MODULE Spec2Model ----
(***************************************************************************)
(* Faramesh Node.js SDK: the transport executor (makeRequest), the action  *)
(* lifecycle operations built on it and the gate helpers, as a state       *)
(* machine.  One public operation runs at a time (op); it drives the       *)
(* shared makeRequest machine (mr_pc) through call and return.             *)
(*                                                                         *)
(* Times are milliseconds.  elapsed is Date.now() - startTime of the       *)
(* running polling operation; the code only compares it with a timeout,    *)
(* so it saturates at ClockCap, a value above every timeout of the model.  *)
(***************************************************************************)
EXTENDS Integers, Sequences, FiniteSets, TLC

\* ---------------------------------------------------------------- bounds
MaxRetriesBound == 2      \* config.maxRetries ranges over 0..MaxRetriesBound
MaxBackoffFactor == 2     \* config.retryBackoffFactor (seconds) over 1..MaxBackoffFactor
MaxTimeoutSec == 2        \* poll timeouts range over 0..MaxTimeoutSec seconds
MaxPollSec == 1           \* poll intervals range over 1..MaxPollSec seconds
MaxLatencySec == 1        \* one physical attempt takes 0..MaxLatencySec seconds
MaxRetriesOps == 1        \* config.maxRetries over 0..MaxRetriesOps outside Spec
MaxBatch == 3             \* batches of 0..MaxBatch requests

\* ---------------------------------------------------------------- constants
MsPerSecond == 1000

ClockCap == (MaxTimeoutSec + 1) * MsPerSecond

\* The poll counter saturates here: with at least a second between polls a
\* loop that obeys its deadline fetches at most MaxTimeoutSec + 2 times.
PollsCap == MaxTimeoutSec + 3

Min(a, b) == IF a < b THEN a ELSE b

RECURSIVE Pow2(_)
Pow2(n) == IF n <= 0 THEN 1 ELSE 2 * Pow2(n - 1)

\* ---------------------------------------------------------------- data
ActionStatus ==
  {"allowed", "pending_approval", "approved", "denied", "executing", "succeeded", "failed"}

Decision == {"allow", "deny", "require_approval"}

DecisionOutcome == {"EXECUTE", "ABSTAIN", "HALT"}

\* A response body.  Action snapshots carry status and decision, a denied
\* one possibly the server's reason; gate decisions carry outcome; "none" is
\* an absent field, and NoPayload a body with none of them (an empty body).
ActionPayloads ==
  [status : ActionStatus, decision : Decision, outcome : {"none"}, reason : {"none"}]
  \cup [status : {"denied"}, decision : {"deny"}, outcome : {"none"}, reason : {"too risky"}]
GatePayloads == [status : {"none"}, decision : {"none"}, outcome : DecisionOutcome, reason : {"none"}]
NoPayload == [status |-> "none", decision |-> "none", outcome |-> "none", reason |-> "none"]
Payloads == ActionPayloads \cup GatePayloads \cup {NoPayload}

\* HTTP statuses axios rejects with (validateStatus: 2xx only).
ErrorStatuses == {400, 401, 404, 422, 500}

\* error.code of an axios error that has no response.
NetworkCodes == {"ECONNABORTED", "ECONNREFUSED", "ENOTFOUND", "ETIMEDOUT", "ERR_NETWORK"}

\* What one client.request(...) can end with: a 2xx response, an axios error
\* with a response, an axios error without one (msgTimeout: error.message
\* includes "timeout"), or a rejection that is no axios error.
TransportOutcomes ==
  [kind : {"response"}, status : {200}, code : {"none"}, msgTimeout : {FALSE}, data : Payloads]
  \cup [kind : {"axiosError"}, status : ErrorStatuses, code : {"ERR_BAD_RESPONSE"},
        msgTimeout : {FALSE}, data : {NoPayload}]
  \cup [kind : {"axiosError"}, status : {0}, code : NetworkCodes,
        msgTimeout : BOOLEAN, data : {NoPayload}]
  \cup [kind : {"otherError"}, status : {0}, code : {"none"},
        msgTimeout : {FALSE}, data : {NoPayload}]

\* The error taxonomy: class name, statusCode (0: undefined) and what the
\* message reports: an action status or a denial reason ("none": neither).
FarameshError(statusCode) ==
  [name |-> "FarameshError", statusCode |-> statusCode, reports |-> "none"]
FarameshAuthError == [name |-> "FarameshAuthError", statusCode |-> 401, reports |-> "none"]
FarameshNotFoundError ==
  [name |-> "FarameshNotFoundError", statusCode |-> 404, reports |-> "none"]
FarameshPolicyError == [name |-> "FarameshPolicyError", statusCode |-> 0, reports |-> "none"]
\* Mutant of FarameshTimeoutError: the message reports no status.
FarameshTimeoutErrorNoStatus(st) ==
  [name |-> "FarameshTimeoutError", statusCode |-> 0, reports |-> "none"]

FarameshTimeoutError(st) ==
  [name |-> "FarameshTimeoutError", statusCode |-> 0, reports |-> st]
FarameshConnectionError ==
  [name |-> "FarameshConnectionError", statusCode |-> 0, reports |-> "none"]
FarameshValidationError ==
  [name |-> "FarameshValidationError", statusCode |-> 422, reports |-> "none"]
FarameshServerError == [name |-> "FarameshServerError", statusCode |-> 500, reports |-> "none"]
FarameshDeniedError(reason) ==
  [name |-> "FarameshDeniedError", statusCode |-> 0, reports |-> reason]
NoError == [name |-> "none", statusCode |-> 0, reports |-> "none"]

\* The effective global configuration a request reads.
Configs == [maxRetries : 0 .. MaxRetriesBound, retryBackoffFactor : 1 .. MaxBackoffFactor]

\* ---------------------------------------------------------------- state
VARIABLES
  config,       \* makeRequest's const config = getConfig(): its retry policy
  op,           \* the public operation in progress, "none" before the call
  op_pc,        \* its position
  op_result,    \* the payload it returned
  op_error,     \* the error it threw
  mr_pc,        \* makeRequest: "idle", "inflight", "backoff", "returned", "thrown"
  method,       \* makeRequest's method
  path,         \* makeRequest's path
  attempt,      \* makeRequest's loop variable
  lastError,    \* makeRequest: TRUE once lastError is assigned
  responseData, \* makeRequest's return value
  thrown,       \* makeRequest's thrown error
  outcomes,     \* history: what each physical attempt of this request ended with
  delays,       \* history: the backoff sleeps of this request, in ms
  calls,        \* history: instrumentation callbacks invoked by this request
  elapsed,      \* Date.now() - startTime of the polling operation
  pollInterval, \* polling operation: its poll interval
  timeout,      \* polling operation: its timeout
  status,       \* polling operation: the status of the last snapshot fetched
  polls,        \* history: getAction calls of the polling operation
  executor,     \* executeIfAllowed: an executor was supplied
  executorCalls,\* history: invocations of the executor
  executorOutcome, \* history: how the executor's promise settled
  result,       \* executeIfAllowed's result object
  args,         \* composite operation: its arguments
  original,     \* composite operation: the fields it reads of the fetched action
  requests,     \* history: the logical requests of the composite operation
  responses,    \* history: how each of them ended, "returned" or "thrown"
  index,        \* batch submission: the loop variable i
  results,      \* submitActions: results
  successes,    \* submitActionsBulk: successes
  errors,       \* submitActionsBulk: errors
  replayed,     \* replayDecision: the fields it reads of the fresh decision
  replayResult, \* replayDecision: the ReplayResult it returns
  callbacks,    \* globalConfig.onRequestStart / onRequestEnd / onError
  readyState,   \* onEvents: the EventSource, "none" before it exists, "open", "closed"
  options,      \* onEvents: which options were supplied
  buffered,     \* onEvents: messages the source has received and not yet dispatched
  aborted,      \* onEvents: options.signal has been aborted
  closedBy,     \* history: the first close path taken, "none" while subscribed
  handled,      \* history: invocations of the caller's handler
  message,      \* history: the message last dispatched to onmessage
  serverStatus, \* the status the server holds for the action, "none" before it exists
  observed,     \* history: the statuses successive getAction calls returned
  payload,      \* canonicalization: the value passed in
  canonical,    \* canonicalization: the canonical string built, <<>> before
  caller,       \* the operation awaiting the polling operation in progress, "none" at top level
  submitConfig, \* submitAndWait: the fields of its config argument
  globalConfig, \* the module's globalConfig where configure is followed, null otherwise
  client,       \* makeRequest's axios instance: the base URL and token it was created with
  lastOptions,  \* history: the options of the latest configure call
  toolConfig,   \* governedTool: blockUntilDone and operation of its config
  fnCalls,      \* history: invocations of the function governedTool wraps
  actions,      \* ActionSnapshotStore: the map from id to snapshot, "undefined" where absent
  recent,       \* ActionSnapshotStore: the list of ids
  maxSize,      \* ActionSnapshotStore: its capacity
  added,        \* history: the actions passed to addAction since the last clear
  listed,       \* history: limit and result of listRecent when it was the latest call
  failed        \* history: the latest call was an addAction that threw

mrVars == <<mr_pc, method, path, attempt, lastError, responseData, thrown, outcomes, delays, calls>>
pollVars == <<elapsed, pollInterval, timeout, status, polls>>
gateVars == <<executor, executorCalls, executorOutcome, result>>
opVars == <<op, op_pc, op_result, op_error>>
batchVars == <<index, results, successes, errors>>
replayVars == <<replayed, replayResult>>
compositeVars == <<args, original, requests, responses, batchVars, replayVars>>
streamVars == <<readyState, options, buffered, aborted, closedBy, handled, message>>
lifecycleVars == <<serverStatus, observed>>
canonVars == <<payload, canonical>>
nestVars == <<caller, submitConfig>>
configVars == <<globalConfig, client, lastOptions>>
toolVars == <<toolConfig, fnCalls>>
storeVars == <<actions, recent, maxSize, added, listed, failed>>
moreVars == <<configVars, toolVars, storeVars>>
otherVars == <<lifecycleVars, canonVars, nestVars, moreVars>>
restVars == <<callbacks, streamVars, otherVars>>
extraVars == <<compositeVars, restVars>>
vars == <<config, opVars, mrVars, pollVars, gateVars, extraVars>>

NoCalls == [onRequestStart |-> 0, onRequestEnd |-> 0, onError |-> 0]
NoResult == [decision |-> NoPayload, executed |-> FALSE, executionResult |-> FALSE,
             executionError |-> FALSE]
\* An instrumentation callback is absent, returns normally or throws.
CallbackModes == {"absent", "returns", "throws"}
Callbacks == [onRequestStart : CallbackModes, onRequestEnd : CallbackModes,
              onError : CallbackModes]
AllReturn == [onRequestStart |-> "returns", onRequestEnd |-> "returns", onError |-> "returns"]
NoOptions == [actionId |-> FALSE, eventTypes |-> FALSE, signal |-> FALSE]
NoMessage == [parses |-> FALSE, actionMatches |-> FALSE, type |-> "unset"]
NoArgs == [token |-> "undefined", n |-> 0, raiseOnError |-> FALSE, by |-> "none"]
NoFields == [id |-> "none"]
NoReplayResult == [success |-> FALSE, mismatches |-> <<>>]

\* No request, poll loop or executor has run.
IdleRequest ==
  /\ op_result = NoPayload
  /\ op_error = NoError
  /\ mr_pc = "idle"
  /\ method = "none"
  /\ path = "none"
  /\ attempt = 0
  /\ lastError = FALSE
  /\ responseData = NoPayload
  /\ thrown = NoError
  /\ outcomes = <<>>
  /\ delays = <<>>
  /\ calls = NoCalls
  /\ elapsed = 0
  /\ pollInterval = 0
  /\ timeout = 0
  /\ status = "none"
  /\ polls = 0
  /\ executor = FALSE
  /\ executorCalls = 0
  /\ executorOutcome = "none"
  /\ result = NoResult
  /\ requests = <<>>
  /\ responses = <<>>
  /\ index = 0
  /\ results = <<>>
  /\ successes = <<>>
  /\ errors = <<>>
  /\ replayResult = NoReplayResult

\* No event subscription exists.
NoStream ==
  /\ readyState = "none"
  /\ options = NoOptions
  /\ buffered = 0
  /\ aborted = FALSE
  /\ closedBy = "none"
  /\ handled = 0
  /\ message = NoMessage

NoLifecycle ==
  /\ serverStatus = "none"
  /\ observed = <<>>

\* A JavaScript value: t is its type; a number that is neither zero nor
\* non-finite is -1^neg * 0.d1d2...dk * 10^n with digits d1..dk, d1 and dk
\* not "0" (the shortest decimal that reads back as the same double); an
\* array holds items; an object holds keys, in insertion order, and the
\* value items[i] of keys[i].  Strings are sequences of characters.
Node(t) == [t |-> t, neg |-> FALSE, digits |-> <<>>, n |-> 0, str |-> <<>>,
            keys |-> <<>>, items |-> <<>>]
Null == Node("null")
Undefined == Node("undefined")

NoCanon ==
  /\ payload = Undefined
  /\ canonical = <<>>

NoSubmitConfig == [requireApproval |-> FALSE, autoStart |-> FALSE, autoApprove |-> FALSE]

NoNesting ==
  /\ caller = "none"
  /\ submitConfig = NoSubmitConfig

\* configure is not followed: the configuration is config and callbacks.
NoClient == [baseUrl |-> "none", token |-> "none"]

\* An option left undefined, for the numeric options.
Unset == 0 - 1

NoConfigOptions ==
  [baseUrl |-> "undefined", token |-> "undefined", maxRetries |-> Unset, retryBackoffFactor |-> 1,
   onRequestStart |-> "absent", onRequestEnd |-> "absent", onError |-> "absent"]

\* globalConfig = null
NullConfig ==
  [configured |-> FALSE, baseUrl |-> "none", token |-> "none", maxRetries |-> 0,
   retryBackoffFactor |-> 0, onRequestStart |-> "absent", onRequestEnd |-> "absent",
   onError |-> "absent"]

NoGlobal ==
  /\ globalConfig = NullConfig
  /\ client = NoClient
  /\ lastOptions = NoConfigOptions

NoToolConfig == [blockUntilDone |-> FALSE, operation |-> "undefined"]

NoTool ==
  /\ toolConfig = NoToolConfig
  /\ fnCalls = 0

\* The ids an action can carry; "" stands for a missing id.
Ids == {"a", "b"}
NoListing == [limit |-> 0, result |-> <<>>]

\* A store just constructed.
EmptyStore ==
  /\ actions = [id \in Ids |-> "undefined"]
  /\ recent = <<>>
  /\ added = <<>>
  /\ listed = NoListing
  /\ failed = FALSE

NoStore == EmptyStore /\ maxSize = 0

NoMore == NoGlobal /\ NoTool /\ NoStore

Other == NoLifecycle /\ NoCanon /\ NoNesting /\ NoMore

Init ==
  /\ config \in Configs
  /\ op = "none"
  /\ op_pc = "idle"
  /\ op_result = NoPayload
  /\ op_error = NoError
  /\ mr_pc = "idle"
  /\ method = "none"
  /\ path = "none"
  /\ attempt = 0
  /\ lastError = FALSE
  /\ responseData = NoPayload
  /\ thrown = NoError
  /\ outcomes = <<>>
  /\ delays = <<>>
  /\ calls = NoCalls
  /\ elapsed = 0
  /\ pollInterval = 0
  /\ timeout = 0
  /\ status = "none"
  /\ polls = 0
  /\ executor = FALSE
  /\ executorCalls = 0
  /\ executorOutcome = "none"
  /\ result = NoResult
  /\ args = NoArgs
  /\ original = NoFields
  /\ requests = <<>>
  /\ responses = <<>>
  /\ index = 0
  /\ results = <<>>
  /\ successes = <<>>
  /\ errors = <<>>
  /\ replayed = NoFields
  /\ replayResult = NoReplayResult
  /\ callbacks = AllReturn
  /\ NoStream
  /\ Other

\* ---------------------------------------------------------------- makeRequest
\* Elapsed time after d more milliseconds.
Tick(e, d) == Min(e + d, ClockCap)

\* Mutant of IsPolicyDenial: the test is applied to every POST, not to the
\* submit endpoint alone.
IsPolicyDenialAnyPath(m, p, data) ==
  /\ m = "POST"
  /\ data # NoPayload
  /\ \/ data.status = "denied"
     \/ data.decision = "deny" /\ data.status # "pending_approval"

\* The policy-denial test on a 2xx body (submit endpoint only).
IsPolicyDenial(m, p, data) ==
  /\ m = "POST"
  /\ p = "/v1/actions"
  /\ data # NoPayload
  /\ \/ data.status = "denied"
     \/ data.decision = "deny" /\ data.status # "pending_approval"

\* Mutant of IsTimeout: only the message is tested, not the error code.
IsTimeoutByMessage(o) == o.msgTimeout

\* The hard-timeout test of the catch block.
IsTimeout(o) == o.code = "ECONNABORTED" \/ o.msgTimeout

\* Mutant of IsRetryable5xx: the retry budget is off by one.
IsRetryable5xxOffByOne(o, k, cfg) == k <= cfg.maxRetries /\ o.status # 0 /\ o.status >= 500

\* The retry test for 5xx responses.
IsRetryable5xx(o, k, cfg) == k < cfg.maxRetries /\ o.status # 0 /\ o.status >= 500

\* Mutant of WaitTime: the backoff does not grow with the attempt.
WaitTimeConstant(cfg, k) == cfg.retryBackoffFactor * MsPerSecond

\* The backoff before the attempt after attempt k, in ms.
WaitTime(cfg, k) == cfg.retryBackoffFactor * Pow2(k) * MsPerSecond

\* Mutant of TerminalErrorFor: 422 is not recognised.
TerminalErrorForNo422(st) ==
  CASE st = 401 -> FarameshAuthError
    [] st = 404 -> FarameshNotFoundError
    [] OTHER -> NoError

\* The terminal error of an error response: 401, 404 and 422 are thrown at
\* once; NoError for every other status.
TerminalErrorFor(st) ==
  CASE st = 401 -> FarameshAuthError
    [] st = 404 -> FarameshNotFoundError
    [] st = 422 -> FarameshValidationError
    [] OTHER -> NoError

\* What one iteration of the retry loop does with the attempt's outcome o:
\* next is "return", "throw" or "retry"; onError / onRequestEnd count the
\* callbacks it invokes; setsLastError: it assigns lastError.
Handle(o, k, cfg, m, p) ==
  IF o.kind = "response" THEN
    IF IsPolicyDenial(m, p, o.data)
    THEN [next |-> "throw", error |-> FarameshPolicyError, onError |-> 1,
          onRequestEnd |-> 1, setsLastError |-> FALSE]
    ELSE [next |-> "return", error |-> NoError, onError |-> 0,
          onRequestEnd |-> 1, setsLastError |-> FALSE]
  ELSE IF o.kind = "axiosError" THEN
    IF TerminalErrorFor(o.status) # NoError
    THEN [next |-> "throw", error |-> TerminalErrorFor(o.status), onError |-> 1,
          onRequestEnd |-> 1, setsLastError |-> FALSE]
    ELSE IF IsRetryable5xx(o, k, cfg)
    THEN [next |-> "retry", error |-> NoError, onError |-> 1,
          onRequestEnd |-> 0, setsLastError |-> TRUE]
    ELSE IF IsTimeout(o)
    THEN [next |-> "throw", error |-> FarameshTimeoutError("none"), onError |-> 1,
          onRequestEnd |-> 1, setsLastError |-> FALSE]
    ELSE \* connection codes build a FarameshConnectionError that is never
         \* thrown; every remaining axios error is a plain FarameshError
         [next |-> "throw", error |-> FarameshError(o.status), onError |-> 0,
          onRequestEnd |-> 0, setsLastError |-> FALSE]
  ELSE \* not an axios error, not a Faramesh error: lastError = error
    IF k < cfg.maxRetries
    THEN [next |-> "retry", error |-> NoError, onError |-> 0,
          onRequestEnd |-> 0, setsLastError |-> TRUE]
    ELSE \* the loop ends with lastError set: "Request failed after n attempts"
         [next |-> "throw", error |-> FarameshError(0), onError |-> 0,
          onRequestEnd |-> 0, setsLastError |-> TRUE]

\* if (config.cb) { ... }: 1 when the callback is invoked.
Invoked(mode) == IF mode = "absent" THEN 0 ELSE 1

\* Mutant of Escapes: the exception of a throwing callback is not caught.
EscapesWhenThrows(mode) == mode = "throws"

\* try { config.cb(...) } catch (e) {}: whether a failure of the callback
\* leaves the guarded call.
Escapes(mode) == FALSE

CallbackError == [name |-> "CallbackError", statusCode |-> 0, reports |-> "none"]

\* makeRequest(m, p): reads the configuration, calls onRequestStart, enters
\* the loop and issues the first physical attempt.
StartRequestWith(cb, m, p) ==
  /\ mr_pc' = IF Escapes(cb.onRequestStart) THEN "thrown" ELSE "inflight"
  /\ method' = m
  /\ path' = p
  /\ attempt' = 0
  /\ lastError' = FALSE
  /\ responseData' = NoPayload
  /\ thrown' = IF Escapes(cb.onRequestStart) THEN CallbackError ELSE NoError
  /\ outcomes' = <<>>
  /\ delays' = <<>>
  /\ calls' = [NoCalls EXCEPT !.onRequestStart = Invoked(cb.onRequestStart)]

StartRequest(m, p) == StartRequestWith(callbacks, m, p)

Polling == op \in {"waitForCompletion", "blockUntilApproved"}

\* client.request settles with outcome o after d ms; the loop body runs.
Attempt ==
  /\ mr_pc = "inflight"
  /\ \E o \in TransportOutcomes, d \in 0 .. MaxLatencySec :
       LET h == Handle(o, attempt, config, method, path)
           escaped == \/ h.onError = 1 /\ Escapes(callbacks.onError)
                      \/ h.onRequestEnd = 1 /\ Escapes(callbacks.onRequestEnd)
       IN
       /\ outcomes' = Append(outcomes, o)
       /\ calls' = [calls EXCEPT !.onError = @ + h.onError * Invoked(callbacks.onError),
                                 !.onRequestEnd = @ + h.onRequestEnd * Invoked(callbacks.onRequestEnd)]
       /\ lastError' = (lastError \/ h.setsLastError)
       /\ mr_pc' = CASE escaped -> "thrown"
                     [] h.next = "return" -> "returned"
                     [] h.next = "throw" -> "thrown"
                     [] OTHER -> "backoff"
       /\ responseData' = IF h.next = "return" /\ ~escaped THEN o.data ELSE responseData
       /\ thrown' = IF escaped THEN CallbackError ELSE h.error
       /\ elapsed' = IF Polling THEN Tick(elapsed, d * MsPerSecond) ELSE elapsed
  /\ UNCHANGED <<config, opVars, method, path, attempt, delays>>
  /\ UNCHANGED <<pollInterval, timeout, status, polls, gateVars>>
  /\ UNCHANGED extraVars

\* The backoff timer fires: continue with the next attempt.
Backoff ==
  /\ mr_pc = "backoff"
  /\ delays' = Append(delays, WaitTime(config, attempt))
  /\ elapsed' = IF Polling THEN Tick(elapsed, WaitTime(config, attempt)) ELSE elapsed
  /\ attempt' = attempt + 1
  /\ mr_pc' = "inflight"
  /\ UNCHANGED <<config, opVars, method, path, lastError, responseData, thrown, outcomes, calls>>
  /\ UNCHANGED <<pollInterval, timeout, status, polls, gateVars>>
  /\ UNCHANGED extraVars

MRDone == mr_pc \in {"returned", "thrown"}

\* ---------------------------------------------------------------- thin wrappers
\* submitAction, getAction, listActions, startAction, gateDecide: one
\* makeRequest whose result or error is the operation's.
\* Mutant of Endpoint: gateDecide posts to the submit endpoint.
EndpointGateSubmits(name) ==
  IF name \in {"getAction", "listActions"}
  THEN [method |-> "GET", path |-> "/v1/actions"]
  ELSE [method |-> "POST", path |-> "/v1/actions"]

Endpoint(name) ==
  CASE name = "submitAction" -> [method |-> "POST", path |-> "/v1/actions"]
    [] name = "getAction" -> [method |-> "GET", path |-> "/v1/actions/{id}"]
    [] name = "listActions" -> [method |-> "GET", path |-> "/v1/actions"]
    [] name = "startAction" -> [method |-> "POST", path |-> "/v1/actions/{id}/start"]
    [] name = "gateDecide" -> [method |-> "POST", path |-> "/v1/gate/decide"]
    [] name = "approval" -> [method |-> "POST", path |-> "/v1/actions/{id}/approval"]

Wrappers == {"submitAction", "getAction", "listActions", "startAction", "gateDecide"}

CallWrapper ==
  /\ op = "none"
  /\ \E name \in Wrappers :
       /\ op' = name
       /\ StartRequest(Endpoint(name).method, Endpoint(name).path)
  /\ op_pc' = "awaitRequest"
  /\ UNCHANGED <<config, op_result, op_error, pollVars, gateVars>>
  /\ UNCHANGED extraVars

WrapperDone ==
  /\ op \in Wrappers
  /\ op_pc = "awaitRequest"
  /\ MRDone
  /\ op_pc' = mr_pc
  /\ op_result' = responseData
  /\ op_error' = thrown
  /\ UNCHANGED <<config, op, mrVars, pollVars, gateVars>>
  /\ UNCHANGED extraVars

\* ---------------------------------------------------------------- waitForCompletion
PollIntervals == {p * MsPerSecond : p \in 1 .. MaxPollSec}
Timeouts == {t * MsPerSecond : t \in 0 .. MaxTimeoutSec}
\* How late a timer may fire.
Overshoots == {d * MsPerSecond : d \in 0 .. MaxLatencySec}

\* Mutant of CompletedStatuses: approved is treated as completed too.
CompletedStatusesWithApproved == {"succeeded", "failed", "denied", "approved"}

\* Mutant of CompletedStatuses: succeeded is not treated as completed.
CompletedStatusesNoSucceeded == {"failed", "denied"}

\* Mutant of CompletedStatuses: denied is not treated as completed.
CompletedStatusesNoDenied == {"succeeded", "failed"}

\* The statuses on which waitForCompletion returns.
CompletedStatuses == {"succeeded", "failed", "denied"}

\* Mutant of DeadlineExceeded: the operands are exchanged.
DeadlineExceededSwapped(e, t) == t > e + ClockCap

\* The deadline test of both polling loops: Date.now() - startTime > timeout.
DeadlineExceeded(e, t) == e > t

\* await getAction(actionId)
Fetch ==
  /\ StartRequest("GET", "/v1/actions/{id}")
  /\ polls' = Min(polls + 1, PollsCap)

\* waitForCompletion(actionId, pollInterval, timeout): startTime = Date.now(),
\* then the first fetch.
CallWaitForCompletion ==
  /\ op = "none"
  /\ op' = "waitForCompletion"
  /\ pollInterval' \in PollIntervals
  /\ timeout' \in Timeouts
  /\ elapsed' = 0
  /\ Fetch
  /\ op_pc' = "awaitRequest"
  /\ UNCHANGED <<config, op_result, op_error, status, gateVars>>
  /\ UNCHANGED extraVars

\* The loop body after a fetch: return a completed snapshot, fail on the
\* deadline, or sleep.  A failed fetch propagates.
WaitAfterFetch ==
  /\ op = "waitForCompletion"
  /\ op_pc = "awaitRequest"
  /\ MRDone
  /\ IF mr_pc = "thrown"
     THEN /\ op_pc' = "thrown"
          /\ op_error' = thrown
          /\ UNCHANGED <<op_result, status>>
     ELSE /\ status' = responseData.status
          /\ IF responseData.status \in CompletedStatuses
             THEN /\ op_pc' = "returned"
                  /\ op_result' = responseData
                  /\ UNCHANGED op_error
             ELSE IF DeadlineExceeded(elapsed, timeout)
             THEN /\ op_pc' = "thrown"
                  /\ op_error' = FarameshTimeoutError(responseData.status)
                  /\ UNCHANGED op_result
             ELSE /\ op_pc' = "sleeping"
                  /\ UNCHANGED <<op_result, op_error>>
  /\ UNCHANGED <<config, op, mrVars, elapsed, pollInterval, timeout, polls, gateVars>>
  /\ UNCHANGED extraVars

\* The poll timer fires; the loop fetches again.
WaitSleepDone ==
  /\ op = "waitForCompletion"
  /\ op_pc = "sleeping"
  /\ \E late \in Overshoots : elapsed' = Tick(elapsed, pollInterval + late)
  /\ Fetch
  /\ op_pc' = "awaitRequest"
  /\ UNCHANGED <<config, op, op_result, op_error, pollInterval, timeout, status, gateVars>>
  /\ UNCHANGED extraVars

\* ---------------------------------------------------------------- blockUntilApproved
\* timeoutMs = options?.timeoutMs || 300000 is never 0.
ApprovalTimeouts == Timeouts \ {0}

\* The head of the loop at elapsed time e: the deadline test, then the fetch.
BlockLoopHead(e) ==
  IF DeadlineExceeded(e, timeout')
  THEN /\ op_pc' = "thrown"
       /\ op_error' = FarameshTimeoutError("none")
       /\ UNCHANGED <<mrVars, polls>>
  ELSE /\ op_pc' = "awaitRequest"
       /\ Fetch
       /\ UNCHANGED op_error

CallBlockUntilApproved ==
  /\ op = "none"
  /\ op' = "blockUntilApproved"
  /\ pollInterval' \in PollIntervals
  /\ timeout' \in ApprovalTimeouts
  /\ elapsed' = 0
  /\ BlockLoopHead(0)
  /\ UNCHANGED <<config, op_result, status, gateVars>>
  /\ UNCHANGED extraVars

AlreadyProcessed == {"allowed", "succeeded", "failed"}

\* Mutant of DenialReason: the server's reason is not read.
DenialReasonDefault(action) == "Action denied"

\* action.reason || "Action denied"
DenialReason(action) == IF action.reason # "none" THEN action.reason ELSE "Action denied"

\* The status dispatch after a fetch.
BlockAfterFetch ==
  /\ op = "blockUntilApproved"
  /\ op_pc = "awaitRequest"
  /\ MRDone
  /\ IF mr_pc = "thrown"
     THEN /\ op_pc' = "thrown"
          /\ op_error' = thrown
          /\ UNCHANGED <<op_result, status>>
     ELSE /\ status' = responseData.status
          /\ IF responseData.status = "approved"
             THEN /\ op_pc' = "returned"
                  /\ op_result' = responseData
                  /\ UNCHANGED op_error
             ELSE IF responseData.status = "denied"
             THEN /\ op_pc' = "thrown"
                  /\ op_error' = FarameshDeniedError(DenialReason(responseData))
                  /\ UNCHANGED op_result
             ELSE IF responseData.status \in AlreadyProcessed
             THEN /\ op_pc' = "returned"
                  /\ op_result' = responseData
                  /\ UNCHANGED op_error
             ELSE /\ op_pc' = "sleeping"
                  /\ UNCHANGED <<op_result, op_error>>
  /\ UNCHANGED <<config, op, mrVars, elapsed, pollInterval, timeout, polls, gateVars>>
  /\ UNCHANGED extraVars

BlockSleepDone ==
  /\ op = "blockUntilApproved"
  /\ op_pc = "sleeping"
  /\ \E late \in Overshoots :
       /\ elapsed' = Tick(elapsed, pollInterval + late)
       /\ timeout' = timeout
       /\ BlockLoopHead(Tick(elapsed, pollInterval + late))
  /\ UNCHANGED <<config, op, op_result, pollInterval, status, gateVars>>
  /\ UNCHANGED extraVars

\* ---------------------------------------------------------------- executeIfAllowed
\* const decision = await gateDecide(...)
CallExecuteIfAllowed ==
  /\ op = "none"
  /\ op' = "executeIfAllowed"
  /\ executor' \in BOOLEAN
  /\ StartRequest(Endpoint("gateDecide").method, Endpoint("gateDecide").path)
  /\ op_pc' = "awaitRequest"
  /\ UNCHANGED <<config, op_result, op_error, pollVars, executorCalls, executorOutcome, result>>
  /\ UNCHANGED extraVars

\* Mutant of ShouldExecute: the outcome is not tested.
ShouldExecuteAnyOutcome(decision, hasExecutor) == hasExecutor

\* The gate: the executor runs only on EXECUTE and only when supplied.
ShouldExecute(decision, hasExecutor) == decision.outcome = "EXECUTE" /\ hasExecutor

ExecuteAfterDecide ==
  /\ op = "executeIfAllowed"
  /\ op_pc = "awaitRequest"
  /\ MRDone
  /\ IF mr_pc = "thrown"
     THEN /\ op_pc' = "thrown"
          /\ op_error' = thrown
          /\ UNCHANGED <<result, executorCalls>>
     ELSE /\ result' = [NoResult EXCEPT !.decision = responseData]
          /\ UNCHANGED op_error
          /\ IF ShouldExecute(responseData, executor)
             THEN /\ op_pc' = "executing"
                  /\ executorCalls' = executorCalls + 1
             ELSE /\ op_pc' = "returned"
                  /\ UNCHANGED executorCalls
  /\ UNCHANGED <<config, op, op_result, mrVars, pollVars, executor, executorOutcome>>
  /\ UNCHANGED extraVars

\* How the executor's promise can settle: it resolves, it rejects with a
\* value that can be read for a message (an Error, a string, an object),
\* or it rejects with null or undefined.
ExecutorSettlements == {"resolves", "rejects", "rejectsNullish"}

TypeError == [name |-> "TypeError", statusCode |-> 0, reports |-> "none"]

\* The executor's promise settles.  Its result, or error.message ||
\* String(error), is recorded and the result object returned; reading
\* .message of a null or undefined rejection value throws a TypeError in
\* the catch block, which leaves executeIfAllowed.
ExecutorSettles ==
  /\ op = "executeIfAllowed"
  /\ op_pc = "executing"
  /\ \E how \in ExecutorSettlements :
       /\ executorOutcome' = how
       /\ result' = CASE how = "resolves" ->
                           [result EXCEPT !.executed = TRUE, !.executionResult = TRUE]
                      [] how = "rejects" -> [result EXCEPT !.executionError = TRUE]
                      [] OTHER -> result
       /\ op_pc' = IF how = "rejectsNullish" THEN "thrown" ELSE "returned"
       /\ op_error' = IF how = "rejectsNullish" THEN TypeError ELSE op_error
  /\ UNCHANGED <<config, op, op_result, mrVars, pollVars, executor, executorCalls>>
  /\ UNCHANGED extraVars

\* ---------------------------------------------------------------- composite operations
\* The operations below issue several logical requests; requests records
\* each of them with the body it carries.

\* JavaScript truthiness of an optional string: absent, null and "" are falsy.
Truthy(v) == v \notin {"undefined", "null", ""}

NoBody == [kind |-> "none"]

\* makeRequest(method, path, body) of the named endpoint.
Send(name, body) ==
  /\ StartRequest(Endpoint(name).method, Endpoint(name).path)
  /\ requests' = Append(requests, [method |-> Endpoint(name).method,
                                   path |-> Endpoint(name).path, body |-> body])

\* Mutant of Resume: the operation goes on without awaiting the request.
ResumeWithoutAwait == responses' = Append(responses, mr_pc)

\* The awaited makeRequest settled and the operation resumes.
Resume ==
  /\ MRDone
  /\ responses' = Append(responses, mr_pc)

\* The composite operation throws e itself, without a request.
Throw(e) ==
  /\ op_pc' = "thrown"
  /\ op_error' = e
  /\ UNCHANGED <<mrVars, requests>>

\* ---------------------------------------------------------------- approveAction / denyAction
ApprovalOps == {"approveAction", "denyAction"}

\* The token argument, and the approval_token of a fetched snapshot.
TokenArguments == {"undefined", "", "tokenA"}
ApprovalTokens == {"null", "", "tokenS"}

\* Mutant of ApprovalPayload: both operations send approve: true.
ApprovalPayloadAlwaysApprove(name, tok) == [kind |-> "approval", token |-> tok, approve |-> TRUE]

\* Mutant of ApprovalPayload: the token is left out of the body.
ApprovalPayloadNoToken(name, tok) ==
  [kind |-> "approval", token |-> "", approve |-> (name = "approveAction")]

\* The body of the approval POST: approve is true in approveAction and
\* false in denyAction.
ApprovalPayload(name, tok) ==
  [kind |-> "approval", token |-> tok, approve |-> (name = "approveAction")]

CallApproval ==
  /\ op = "none"
  /\ \E name \in ApprovalOps, tok \in TokenArguments :
       /\ op' = name
       /\ args' = [NoArgs EXCEPT !.token = tok]
       /\ IF Truthy(tok)
          THEN /\ Send("approval", ApprovalPayload(name, tok))
               /\ op_pc' = "awaitRequest"
          ELSE /\ Send("getAction", NoBody)
               /\ op_pc' = "awaitFetch"
  /\ UNCHANGED <<config, op_result, op_error, pollVars, gateVars>>
  /\ UNCHANGED <<original, responses, batchVars, replayVars>>
  /\ UNCHANGED restVars

\* The fetch of the token-less call returned: the status check, the token
\* check, then the approval POST with the fetched token.
ApprovalAfterFetch ==
  /\ op \in ApprovalOps
  /\ op_pc = "awaitFetch"
  /\ Resume
  /\ IF mr_pc = "thrown"
     THEN /\ Throw(thrown)
          /\ UNCHANGED original
     ELSE \E tok \in ApprovalTokens :
            /\ original' = [id |-> "{id}", status |-> responseData.status,
                            approval_token |-> tok]
            /\ IF responseData.status # "pending_approval"
               THEN Throw(FarameshError(0))
               ELSE IF ~Truthy(tok)
               THEN Throw(FarameshError(0))
               ELSE /\ Send("approval", ApprovalPayload(op, tok))
                    /\ op_pc' = "awaitRequest"
                    /\ UNCHANGED op_error
  /\ UNCHANGED <<config, op, op_result, pollVars, gateVars>>
  /\ UNCHANGED <<args, batchVars, replayVars>>
  /\ UNCHANGED restVars

\* ---------------------------------------------------------------- replayAction
ReplayableStatuses == {"allowed", "approved", "succeeded"}

\* The submit fields of a fetched action.  A context is a map from keys to
\* values, or absent (present = FALSE).
ContextKeys == {"user", "replayed_from", "replay"}
ContextMaps == {[k \in K |-> "old"] : K \in SUBSET ContextKeys}
Contexts == [present : {TRUE}, map : ContextMaps] \cup {[present |-> FALSE, map |-> <<>>]}
SubmitFields ==
  {[agent_id |-> "agent1", tool |-> "http", operation |-> "get", params |-> "params1"],
   [agent_id |-> "agent2", tool |-> "shell", operation |-> "run", params |-> "params2"]}

\* original.context || {}
ContextOrEmpty(c) == IF c.present THEN c.map ELSE <<>>

\* Mutant of Spread: the keys of the original context win.
SpreadKeepOriginal(ctx, upd) ==
  [k \in DOMAIN ctx \cup DOMAIN upd |-> IF k \in DOMAIN ctx THEN ctx[k] ELSE upd[k]]

\* { ...ctx, ...upd }: the keys of upd are added, overriding those of ctx.
Spread(ctx, upd) ==
  [k \in DOMAIN ctx \cup DOMAIN upd |-> IF k \in DOMAIN upd THEN upd[k] ELSE ctx[k]]

\* The payload replayAction submits for the fetched action o.
ReplayPayload(o) ==
  [kind |-> "submit", agent_id |-> o.agent_id, tool |-> o.tool, operation |-> o.operation,
   params |-> o.params,
   context |-> Spread(ContextOrEmpty(o.context), [replayed_from |-> o.id, replay |-> "true"])]

CallReplayAction ==
  /\ op = "none"
  /\ op' = "replayAction"
  /\ Send("getAction", NoBody)
  /\ op_pc' = "awaitFetch"
  /\ UNCHANGED <<config, op_result, op_error, pollVars, gateVars>>
  /\ UNCHANGED <<args, original, responses, batchVars, replayVars>>
  /\ UNCHANGED restVars

\* The original was fetched: the status check, then the submission.
ReplayAfterFetch ==
  /\ op = "replayAction"
  /\ op_pc = "awaitFetch"
  /\ Resume
  /\ IF mr_pc = "thrown"
     THEN /\ Throw(thrown)
          /\ UNCHANGED original
     ELSE \E f \in SubmitFields, c \in Contexts :
            LET o == [id |-> "{id}", status |-> responseData.status, agent_id |-> f.agent_id,
                      tool |-> f.tool, operation |-> f.operation, params |-> f.params,
                      context |-> c] IN
            /\ original' = o
            /\ IF o.status \notin ReplayableStatuses
               THEN Throw(FarameshError(0))
               ELSE /\ Send("submitAction", ReplayPayload(o))
                    /\ op_pc' = "awaitRequest"
                    /\ UNCHANGED op_error
  /\ UNCHANGED <<config, op, op_result, pollVars, gateVars>>
  /\ UNCHANGED <<args, batchVars, replayVars>>
  /\ UNCHANGED restVars

\* ---------------------------------------------------------------- submitActions / submitActionsBulk
BatchOps == {"submitActions", "submitActionsBulk"}

FarameshBatchError(succ, errs) ==
  [name |-> "FarameshBatchError", statusCode |-> 0, reports |-> "none",
   successes |-> succ, errors |-> errs]

\* Mutant of KeepsErrorEntry: error entries are never put in the returned list.
KeepsErrorEntryNever(strict) == FALSE

\* submitActionsBulk: an error entry is also pushed to successes, the
\* returned list, unless raiseOnError.
KeepsErrorEntry(strict) == ~strict

\* Mutant of RaisesBatchError: strict mode raises whether or not a request failed.
RaisesBatchErrorAlways(strict, errs) == strict

\* submitActionsBulk after the loop: raiseOnError && errors.length > 0.
RaisesBatchError(strict, errs) == strict /\ Len(errs) > 0

\* The head of the loop at index i, and the code after the loop.
BatchLoop(name, i, succ, errs) ==
  IF i < args'.n
  THEN /\ Send("submitAction", [kind |-> "submit", index |-> i])
       /\ op_pc' = "awaitRequest"
       /\ UNCHANGED op_error
  ELSE IF name = "submitActionsBulk" /\ RaisesBatchError(args'.raiseOnError, errs)
  THEN Throw(FarameshBatchError(succ, errs))
  ELSE /\ op_pc' = "returned"
       /\ UNCHANGED <<op_error, mrVars, requests>>

CallBatch ==
  /\ op = "none"
  /\ \E name \in BatchOps, n \in 0 .. MaxBatch, strict \in BOOLEAN :
       /\ name = "submitActions" => ~strict
       /\ op' = name
       /\ args' = [NoArgs EXCEPT !.n = n, !.raiseOnError = strict]
       /\ BatchLoop(name, 0, <<>>, <<>>)
  /\ UNCHANGED <<config, op_result, pollVars, gateVars>>
  /\ UNCHANGED <<original, responses, batchVars, replayVars>>
  /\ UNCHANGED restVars

\* submitAction for request index settled: its Action or its error entry is
\* collected and the loop goes on.  An entry records which request it stands
\* for and whether it is an Action or an error; the error itself is the one
\* makeRequest threw (thrown) at this step.
BatchAfterSubmit ==
  /\ op \in BatchOps
  /\ op_pc = "awaitRequest"
  /\ Resume
  /\ LET ok == mr_pc = "returned"
         entry == IF ok THEN [kind |-> "action", index |-> index]
                  ELSE [kind |-> "error", index |-> index]
         succ == IF op = "submitActions" THEN successes
                 ELSE IF ok \/ KeepsErrorEntry(args.raiseOnError)
                 THEN Append(successes, entry) ELSE successes
         errs == IF op = "submitActions" \/ ok THEN errors ELSE Append(errors, entry)
     IN
     /\ results' = IF op = "submitActions" THEN Append(results, entry) ELSE results
     /\ successes' = succ
     /\ errors' = errs
     /\ index' = index + 1
     /\ args' = args
     /\ BatchLoop(op, index + 1, succ, errs)
  /\ UNCHANGED <<config, op, op_result, pollVars, gateVars>>
  /\ UNCHANGED <<original, replayVars>>
  /\ UNCHANGED restVars

\* ---------------------------------------------------------------- replayDecision
\* The six fields replayDecision compares, as the original Action and the
\* fresh GateDecision can carry them: "undefined" is an absent field, "null"
\* a null one; hashes and versions are opaque values.
OriginalGateFields ==
  [outcome : {"undefined", "null", "EXECUTE"}, reason_code : {"undefined", "", "RC1"},
   request_hash : {"undefined", "a"}, policy_hash : {"undefined", "a"},
   profile_hash : {"undefined", "a"}, runtime_version : {"undefined", "a"}]
ReplayedGateFields ==
  [outcome : {"undefined"} \cup DecisionOutcome, reason_code : {"", "RC1", "RC2"},
   request_hash : {"null", "a", "b"}, policy_hash : {"null", "a", "b"},
   profile_hash : {"null", "a", "b"}, runtime_version : {"null", "a", "b"}]

\* x || ""
OrEmpty(v) == IF Truthy(v) THEN v ELSE ""

\* The entry pushed to mismatches when test holds.
MismatchIf(test, entry) == IF test THEN <<entry>> ELSE <<>>

\* Mutant of Mismatches: profile_hash is not compared.
MismatchesNoProfile(o, r) ==
  MismatchIf(OrEmpty(o.outcome) # OrEmpty(r.outcome), "outcome")
  \o MismatchIf(OrEmpty(o.reason_code) # OrEmpty(r.reason_code), "reason_code")
  \o MismatchIf(o.request_hash # r.request_hash, "request_hash mismatch")
  \o MismatchIf(o.policy_hash # r.policy_hash, "policy_hash mismatch")
  \o MismatchIf(o.runtime_version # r.runtime_version, "runtime_version")

\* The mismatch list: outcome and reason_code are compared after || "",
\* the hashes and the runtime version with ===.
Mismatches(o, r) ==
  MismatchIf(OrEmpty(o.outcome) # OrEmpty(r.outcome), "outcome")
  \o MismatchIf(OrEmpty(o.reason_code) # OrEmpty(r.reason_code), "reason_code")
  \o MismatchIf(o.request_hash # r.request_hash, "request_hash mismatch")
  \o MismatchIf(o.policy_hash # r.policy_hash, "policy_hash mismatch")
  \o MismatchIf(o.profile_hash # r.profile_hash, "profile_hash mismatch")
  \o MismatchIf(o.runtime_version # r.runtime_version, "runtime_version")

\* The ReplayResult for original o and fresh decision r.
CompareDecisions(o, r) ==
  [success |-> Len(Mismatches(o, r)) = 0,
   originalOutcome |-> OrEmpty(o.outcome),
   replayedOutcome |-> OrEmpty(r.outcome),
   originalReasonCode |-> OrEmpty(o.reason_code),
   replayedReasonCode |-> OrEmpty(r.reason_code),
   requestHashMatch |-> o.request_hash = r.request_hash,
   policyHashMatch |-> o.policy_hash = r.policy_hash,
   profileHashMatch |-> o.profile_hash = r.profile_hash,
   runtimeVersionMatch |-> o.runtime_version = r.runtime_version,
   mismatches |-> Mismatches(o, r)]

\* How the call names the original: options.actionId, options.provenanceId.
ReplaySelectors == {"none", "actionId", "provenanceId", "both"}

\* Within the request flow the hashes of one snapshot vary together.
Uniform(f) ==
  /\ f.request_hash = f.policy_hash
  /\ f.policy_hash = f.profile_hash
  /\ f.profile_hash = f.runtime_version
  /\ f.reason_code = "RC1"

CallReplayDecision ==
  /\ op = "none"
  /\ op' = "replayDecision"
  /\ \E by \in ReplaySelectors :
       /\ args' = [NoArgs EXCEPT !.by = by]
       /\ IF by = "none"
          THEN Throw(FarameshError(0))
          ELSE IF by \in {"provenanceId", "both"}
          THEN /\ Send("listActions", NoBody)
               /\ op_pc' = "awaitList"
               /\ UNCHANGED op_error
          ELSE /\ Send("getAction", NoBody)
               /\ op_pc' = "awaitFetch"
               /\ UNCHANGED op_error
  /\ UNCHANGED <<config, op_result, pollVars, gateVars>>
  /\ UNCHANGED <<original, responses, batchVars, replayVars>>
  /\ UNCHANGED restVars

\* The original was resolved (the first match of the listing, or the
\* fetched action): the fresh decision is requested.
ReplayDecisionAfterFetch ==
  /\ op = "replayDecision"
  /\ op_pc \in {"awaitList", "awaitFetch"}
  /\ Resume
  /\ IF mr_pc = "thrown"
     THEN /\ Throw(thrown)
          /\ UNCHANGED original
     ELSE \E found \in BOOLEAN, f \in SubmitFields, g \in OriginalGateFields :
            /\ op_pc = "awaitFetch" => found
            /\ Uniform(g)
            /\ IF ~found
               THEN /\ Throw(FarameshNotFoundError)
                    /\ UNCHANGED original
               ELSE /\ original' = [id |-> "{id}", agent_id |-> f.agent_id, tool |-> f.tool,
                                    operation |-> f.operation, params |-> f.params,
                                    outcome |-> g.outcome, reason_code |-> g.reason_code,
                                    request_hash |-> g.request_hash,
                                    policy_hash |-> g.policy_hash,
                                    profile_hash |-> g.profile_hash,
                                    runtime_version |-> g.runtime_version]
                    /\ Send("gateDecide", [kind |-> "decide", agent_id |-> f.agent_id,
                                           tool |-> f.tool, operation |-> f.operation,
                                           params |-> f.params])
                    /\ op_pc' = "awaitDecide"
                    /\ UNCHANGED op_error
  /\ UNCHANGED <<config, op, op_result, pollVars, gateVars>>
  /\ UNCHANGED <<args, batchVars, replayVars>>
  /\ UNCHANGED restVars

\* The fresh decision arrived: the comparison, and the ReplayResult.
ReplayDecisionAfterDecide ==
  /\ op = "replayDecision"
  /\ op_pc = "awaitDecide"
  /\ Resume
  /\ IF mr_pc = "thrown"
     THEN /\ Throw(thrown)
          /\ UNCHANGED replayVars
     ELSE \E r \in ReplayedGateFields :
            /\ Uniform(r)
            /\ r.outcome = (IF responseData.outcome = "none" THEN "undefined"
                            ELSE responseData.outcome)
            /\ replayed' = r
            /\ replayResult' = CompareDecisions(original, r)
            /\ op_pc' = "returned"
            /\ UNCHANGED <<op_error, mrVars, requests>>
  /\ UNCHANGED <<config, op, op_result, pollVars, gateVars>>
  /\ UNCHANGED <<args, original, batchVars>>
  /\ UNCHANGED restVars

\* The comparison alone, on an original and a decision already in hand.
Compare ==
  /\ op = "replayDecision"
  /\ op_pc = "comparing"
  /\ replayResult' = CompareDecisions(original, replayed)
  /\ op_pc' = "returned"
  /\ UNCHANGED <<config, op, op_result, op_error, mrVars, pollVars, gateVars>>
  /\ UNCHANGED <<args, original, requests, responses, batchVars, replayed>>
  /\ UNCHANGED restVars

\* The last request of approveAction, denyAction or replayAction settled:
\* its result or error is the operation's.
LastRequestOps == ApprovalOps \cup {"replayAction"}

LastRequestDone ==
  /\ op \in LastRequestOps
  /\ op_pc = "awaitRequest"
  /\ Resume
  /\ op_pc' = mr_pc
  /\ op_result' = responseData
  /\ op_error' = thrown
  /\ UNCHANGED <<config, op, mrVars, pollVars, gateVars>>
  /\ UNCHANGED <<args, original, requests, batchVars, replayVars>>
  /\ UNCHANGED restVars

\* ---------------------------------------------------------------- submitAndWait
\* The config argument: requireApproval and autoStart are destructured,
\* autoApprove is the option the README documents.
SubmitConfigs == [requireApproval : BOOLEAN, autoStart : BOOLEAN, autoApprove : BOOLEAN]

\* action.reason || "Action denied by policy"
SubmitDenialReason(action) ==
  IF action.reason # "none" THEN action.reason ELSE "Action denied by policy"

\* Mutant of Startable: a succeeded action is started as well.
StartableWithSucceeded == {"allowed", "approved", "succeeded"}

\* The statuses that autoStart starts.
Startable == {"allowed", "approved"}

\* The end of submitAndWait with the action in hand: start it when it is
\* allowed or approved and autoStart is set, return it otherwise.
StartOrReturn(action) ==
  IF action.status \in Startable /\ submitConfig.autoStart
  THEN /\ Send("startAction", NoBody)
       /\ op_pc' = "awaitStart"
       /\ UNCHANGED <<op_result, op_error>>
  ELSE /\ op_pc' = "returned"
       /\ op_result' = action
       /\ UNCHANGED <<op_error, mrVars, requests>>

\* submitAndWait(config): the destructuring, then await submitAction(...).
\* timeoutMs is drawn non-zero, so blockUntilApproved and waitForCompletion
\* get the same deadline.
CallSubmitAndWait ==
  /\ op = "none"
  /\ op' = "submitAndWait"
  /\ submitConfig' \in SubmitConfigs
  /\ pollInterval' \in PollIntervals
  /\ timeout' \in ApprovalTimeouts
  /\ Send("submitAction", NoBody)
  /\ op_pc' = "awaitSubmit"
  /\ UNCHANGED <<config, op_result, op_error, elapsed, status, polls, gateVars>>
  /\ UNCHANGED <<args, original, responses, batchVars, replayVars>>
  /\ UNCHANGED <<callbacks, streamVars, lifecycleVars, canonVars, moreVars, caller>>

\* The submission settled: a denial throws, a pending action is waited for
\* only under requireApproval, anything else goes to the autoStart test.
SubmitAndWaitAfterSubmit ==
  /\ op = "submitAndWait"
  /\ op_pc = "awaitSubmit"
  /\ Resume
  /\ IF mr_pc = "thrown"
     THEN /\ Throw(thrown)
          /\ UNCHANGED <<op, op_result, original, pollVars, caller>>
     ELSE /\ original' = [id |-> "{id}", status |-> responseData.status]
          /\ IF responseData.status = "denied"
             THEN /\ Throw(FarameshDeniedError(SubmitDenialReason(responseData)))
                  /\ UNCHANGED <<op, op_result, pollVars, caller>>
             ELSE IF responseData.status = "pending_approval" /\ submitConfig.requireApproval
             THEN /\ op' = "blockUntilApproved"
                  /\ caller' = "submitAndWait"
                  /\ elapsed' = 0
                  /\ timeout' = timeout
                  /\ BlockLoopHead(0)
                  /\ UNCHANGED <<op_result, pollInterval, status, requests>>
             ELSE IF responseData.status = "pending_approval"
             THEN /\ op_pc' = "returned"
                  /\ op_result' = responseData
                  /\ UNCHANGED <<op, op_error, mrVars, requests, pollVars, caller>>
             ELSE /\ StartOrReturn(responseData)
                  /\ UNCHANGED <<op, pollVars, caller>>
  /\ UNCHANGED <<config, gateVars, args, batchVars, replayVars, submitConfig>>
  /\ UNCHANGED <<callbacks, streamVars, lifecycleVars, canonVars, moreVars>>

\* The awaited blockUntilApproved settled: its error propagates, its action
\* goes to the autoStart test.
SubmitAndWaitAfterApproval ==
  /\ caller = "submitAndWait"
  /\ op = "blockUntilApproved"
  /\ op_pc \in {"returned", "thrown"}
  /\ op' = "submitAndWait"
  /\ caller' = "none"
  /\ IF op_pc = "thrown"
     THEN UNCHANGED <<op_pc, op_result, op_error, mrVars, requests>>
     ELSE StartOrReturn(op_result)
  /\ UNCHANGED <<config, pollVars, gateVars, submitConfig>>
  /\ UNCHANGED <<args, original, responses, batchVars, replayVars>>
  /\ UNCHANGED <<callbacks, streamVars, lifecycleVars, canonVars, moreVars>>

\* startAction settled: return waitForCompletion(action.id, pollIntervalMs, timeoutMs).
SubmitAndWaitAfterStart ==
  /\ op = "submitAndWait"
  /\ op_pc = "awaitStart"
  /\ Resume
  /\ IF mr_pc = "thrown"
     THEN /\ Throw(thrown)
          /\ UNCHANGED <<op, elapsed, polls, caller>>
     ELSE /\ op' = "waitForCompletion"
          /\ caller' = "submitAndWait"
          /\ elapsed' = 0
          /\ Fetch
          /\ op_pc' = "awaitRequest"
          /\ UNCHANGED <<op_error, requests>>
  /\ UNCHANGED <<config, op_result, pollInterval, timeout, status, gateVars, submitConfig>>
  /\ UNCHANGED <<args, original, batchVars, replayVars>>
  /\ UNCHANGED <<callbacks, streamVars, lifecycleVars, canonVars, moreVars>>

\* The returned waitForCompletion settled and submitAndWait settles with it.
SubmitAndWaitSettles ==
  /\ caller = "submitAndWait"
  /\ op = "waitForCompletion"
  /\ op_pc \in {"returned", "thrown"}
  /\ op' = "submitAndWait"
  /\ caller' = "none"
  /\ UNCHANGED <<config, op_pc, op_result, op_error, mrVars, pollVars, gateVars>>
  /\ UNCHANGED <<compositeVars, callbacks, streamVars, lifecycleVars, canonVars, moreVars, submitConfig>>

\* ---------------------------------------------------------------- governedTool
\* blockUntilDone, and operation: absent, or a name.
ToolConfigs == [blockUntilDone : BOOLEAN, operation : {"undefined", "refund"}]

\* The name of the wrapped function.
FnName == "sendEmail"

\* const opName = operation || fn.name
OpName(cfg) == IF Truthy(cfg.operation) THEN cfg.operation ELSE FnName

\* Mutant of GovernedStartable: a failed action is started as well.
GovernedStartableWithFailed == {"allowed", "approved", "failed"}

\* The statuses under which the wrapper starts the action.
GovernedStartable == {"allowed", "approved"}

\* "Wait for completion": with the action in hand the wrapper starts it and
\* waits, waits only when it is executing, or returns it.
GovernedContinue(action) ==
  IF action.status \in GovernedStartable
  THEN /\ Send("startAction", NoBody)
       /\ op' = "governedTool"
       /\ caller' = "none"
       /\ op_pc' = "awaitStart"
       /\ UNCHANGED <<op_result, op_error, elapsed, polls>>
  ELSE IF action.status = "executing"
  THEN /\ op' = "waitForCompletion"
       /\ caller' = "governedTool"
       /\ elapsed' = 0
       /\ Fetch
       /\ op_pc' = "awaitRequest"
       /\ UNCHANGED <<op_result, op_error, requests>>
  ELSE /\ op' = "governedTool"
       /\ caller' = "none"
       /\ op_pc' = "returned"
       /\ op_result' = action
       /\ UNCHANGED <<op_error, mrVars, requests, elapsed, polls>>

\* A call of the wrapper governedTool(config, fn) returned: it submits the
\* action with the stringified arguments; fn itself is not called.
CallGovernedTool ==
  /\ op = "none"
  /\ op' = "governedTool"
  /\ toolConfig' \in ToolConfigs
  /\ pollInterval' \in PollIntervals
  /\ timeout' \in ApprovalTimeouts
  /\ Send("submitAction", [kind |-> "submit", operation |-> OpName(toolConfig')])
  /\ op_pc' = "awaitSubmit"
  /\ UNCHANGED <<config, op_result, op_error, elapsed, status, polls, gateVars>>
  /\ UNCHANGED <<args, original, responses, batchVars, replayVars>>
  /\ UNCHANGED <<callbacks, streamVars, lifecycleVars, canonVars, nestVars, configVars, fnCalls, storeVars>>

\* The submission settled.
GovernedAfterSubmit ==
  /\ op = "governedTool"
  /\ op_pc = "awaitSubmit"
  /\ Resume
  /\ IF mr_pc = "thrown"
     THEN /\ Throw(thrown)
          /\ UNCHANGED <<op, caller, op_result, original, elapsed, polls, timeout>>
     ELSE /\ original' = [id |-> "{id}", status |-> responseData.status]
          /\ IF ~toolConfig.blockUntilDone
             THEN /\ op_pc' = "returned"
                  /\ op_result' = responseData
                  /\ UNCHANGED <<op, caller, op_error, mrVars, requests, elapsed, polls, timeout>>
             ELSE IF responseData.status = "pending_approval"
             THEN /\ op' = "blockUntilApproved"
                  /\ caller' = "governedTool"
                  /\ elapsed' = 0
                  /\ timeout' = timeout
                  /\ BlockLoopHead(0)
                  /\ UNCHANGED <<op_result, requests>>
             ELSE /\ GovernedContinue(responseData)
                  /\ UNCHANGED timeout
  /\ UNCHANGED <<config, pollInterval, status, gateVars, args, batchVars, replayVars>>
  /\ UNCHANGED <<callbacks, streamVars, lifecycleVars, canonVars, submitConfig, moreVars>>

\* The awaited blockUntilApproved settled: its error is rethrown, its
\* action goes on.
GovernedAfterApproval ==
  /\ caller = "governedTool"
  /\ op = "blockUntilApproved"
  /\ op_pc \in {"returned", "thrown"}
  /\ IF op_pc = "thrown"
     THEN /\ op' = "governedTool"
          /\ caller' = "none"
          /\ UNCHANGED <<op_pc, op_result, op_error, mrVars, requests, elapsed, polls>>
     ELSE GovernedContinue(op_result)
  /\ UNCHANGED <<config, pollInterval, timeout, status, gateVars>>
  /\ UNCHANGED <<args, original, responses, batchVars, replayVars>>
  /\ UNCHANGED <<callbacks, streamVars, lifecycleVars, canonVars, submitConfig, moreVars>>

\* startAction settled: the wrapper waits for completion.
GovernedAfterStart ==
  /\ op = "governedTool"
  /\ op_pc = "awaitStart"
  /\ Resume
  /\ IF mr_pc = "thrown"
     THEN /\ Throw(thrown)
          /\ UNCHANGED <<op, caller, elapsed, polls>>
     ELSE /\ op' = "waitForCompletion"
          /\ caller' = "governedTool"
          /\ elapsed' = 0
          /\ Fetch
          /\ op_pc' = "awaitRequest"
          /\ UNCHANGED <<op_error, requests>>
  /\ UNCHANGED <<config, op_result, pollInterval, timeout, status, gateVars>>
  /\ UNCHANGED <<args, original, batchVars, replayVars>>
  /\ UNCHANGED <<callbacks, streamVars, lifecycleVars, canonVars, submitConfig, moreVars>>

\* The awaited waitForCompletion settled and the wrapper settles with it.
GovernedSettles ==
  /\ caller = "governedTool"
  /\ op = "waitForCompletion"
  /\ op_pc \in {"returned", "thrown"}
  /\ op' = "governedTool"
  /\ caller' = "none"
  /\ UNCHANGED <<config, op_pc, op_result, op_error, mrVars, pollVars, gateVars>>
  /\ UNCHANGED <<compositeVars, callbacks, streamVars, lifecycleVars, canonVars, submitConfig, moreVars>>

\* ---------------------------------------------------------------- configure
\* parseInt(process.env.FARAMESH_RETRIES || "3", 10) with the variable unset.
DefaultMaxRetries == 3
DefaultBaseUrl == "http://127.0.0.1:8000"

\* The options configure is called with: none, or one of maxRetries, base
\* URL with token, retryBackoffFactor, a callback.  retryBackoffFactor is
\* always supplied, in whole seconds.
ConfigureOptions ==
  {[NoConfigOptions EXCEPT !.maxRetries = n] : n \in {Unset} \cup 0 .. MaxRetriesBound}
  \cup {[NoConfigOptions EXCEPT !.baseUrl = "http://b", !.token = "tokenB"]}
  \cup {[NoConfigOptions EXCEPT !.retryBackoffFactor = f] : f \in 1 .. MaxBackoffFactor}
  \cup {[NoConfigOptions EXCEPT !.onRequestStart = "returns"]}

\* a || b on a numeric option: 0 and undefined give b.
NumberOr(a, b) == IF a = Unset \/ a = 0 THEN b ELSE a

\* a || b on a string option.
StringOr(a, b) == IF Truthy(a) THEN a ELSE b

\* options.cb || existingConfig?.cb
CallbackOr(a, existing, b) == IF a # "absent" THEN a ELSE IF existing.configured THEN b ELSE "absent"

\* Mutant of Configured: a callback that is not supplied is dropped.
ConfiguredAfresh(opts, existing) ==
  [configured |-> TRUE,
   baseUrl |-> StringOr(opts.baseUrl, DefaultBaseUrl),
   token |-> StringOr(opts.token, "undefined"),
   maxRetries |-> NumberOr(opts.maxRetries, DefaultMaxRetries),
   retryBackoffFactor |-> opts.retryBackoffFactor,
   onRequestStart |-> opts.onRequestStart,
   onRequestEnd |-> opts.onRequestEnd,
   onError |-> opts.onError]

\* The object configure(opts) assigns to globalConfig.
Configured(opts, existing) ==
  [configured |-> TRUE,
   baseUrl |-> StringOr(opts.baseUrl, DefaultBaseUrl),
   token |-> StringOr(opts.token, "undefined"),
   maxRetries |-> NumberOr(opts.maxRetries, DefaultMaxRetries),
   retryBackoffFactor |-> opts.retryBackoffFactor,
   onRequestStart |-> CallbackOr(opts.onRequestStart, existing, existing.onRequestStart),
   onRequestEnd |-> CallbackOr(opts.onRequestEnd, existing, existing.onRequestEnd),
   onError |-> CallbackOr(opts.onError, existing, existing.onError)]

\* configure(options): synchronous, at any moment between two steps of a
\* request.
Configure ==
  /\ \E o \in ConfigureOptions :
       /\ lastOptions' = o
       /\ globalConfig' = Configured(o, globalConfig)
  /\ UNCHANGED <<config, opVars, mrVars, pollVars, gateVars, compositeVars, callbacks>>
  /\ UNCHANGED <<streamVars, lifecycleVars, canonVars, nestVars, client, toolVars, storeVars>>

\* getAction(id) under the configuration of the moment: makeRequest takes
\* const config = getConfig() and creates its axios instance from it.  The
\* call is repeated once the previous one has settled.
CallConfigured ==
  /\ globalConfig.configured
  /\ op = "none" \/ (op = "getAction" /\ op_pc \in {"returned", "thrown"})
  /\ op' = "getAction"
  /\ config' = [maxRetries |-> globalConfig.maxRetries,
                retryBackoffFactor |-> globalConfig.retryBackoffFactor]
  /\ callbacks' = [onRequestStart |-> globalConfig.onRequestStart,
                   onRequestEnd |-> globalConfig.onRequestEnd,
                   onError |-> globalConfig.onError]
  /\ client' = [baseUrl |-> globalConfig.baseUrl, token |-> globalConfig.token]
  /\ StartRequestWith(callbacks', Endpoint("getAction").method, Endpoint("getAction").path)
  /\ op_pc' = "awaitRequest"
  /\ op_result' = NoPayload
  /\ op_error' = NoError
  /\ UNCHANGED <<pollVars, gateVars, compositeVars, streamVars>>
  /\ UNCHANGED <<lifecycleVars, canonVars, nestVars, globalConfig, lastOptions, toolVars, storeVars>>

\* ---------------------------------------------------------------- onEvents
MaxBuffered == 2          \* messages the source holds undispatched: 0..MaxBuffered
MaxHandled == 3           \* handler invocations followed: 0..MaxHandled

StreamOptions == [actionId : BOOLEAN, eventTypes : BOOLEAN, signal : BOOLEAN]

\* An inbound message: its data parses as JSON or not, its action_id equals
\* options.actionId or not, and its event_type || type is absent ("none"),
\* one of options.eventTypes ("listed") or another type ("other").
Messages == [parses : BOOLEAN, actionMatches : BOOLEAN, type : {"none", "listed", "other"}]

\* Mutant of Passes: the filters apply only when both are supplied.
PassesUnlessBothFail(m, opts) ==
  /\ m.parses
  /\ (opts.actionId /\ opts.eventTypes) => (m.actionMatches /\ m.type = "listed")

\* onmessage: whether the handler is invoked for message m.
Passes(m, opts) ==
  /\ m.parses
  /\ opts.actionId => m.actionMatches
  /\ opts.eventTypes => m.type = "listed"

\* Mutant of CloseEventSource: the call has no effect.
CloseEventSourceNoop(rs) == rs

\* eventSource.close()
CloseEventSource(rs) == "closed"

\* An EventSource dispatches a message event only while its readyState is
\* not CLOSED.
SourceDispatches(rs) == rs = "open"

\* The two subscriptions.  tailEvents(callback, actionId) has the action-id
\* filter only and no signal.
Subscriptions == {"onEvents", "tailEvents"}
OptionsOf(name) ==
  IF name = "onEvents" THEN StreamOptions
  ELSE {o \in StreamOptions : ~o.eventTypes /\ ~o.signal}

\* onEvents(handler, options) returns its close function, tailEvents a
\* promise that stays pending: the EventSource is created and the listeners
\* are installed.
Subscribe ==
  /\ op = "none"
  /\ \E name \in Subscriptions :
       /\ op' = name
       /\ op_pc' = IF name = "onEvents" THEN "returned" ELSE "streaming"
       /\ \E o \in OptionsOf(name) : options' = o
  /\ readyState' = "open"
  /\ UNCHANGED <<config, op_result, op_error, mrVars, pollVars, gateVars, compositeVars>>
  /\ UNCHANGED <<callbacks, buffered, aborted, closedBy, handled, message>>
  /\ UNCHANGED otherVars

\* The source receives a message from the server.
Receive ==
  /\ readyState = "open"
  /\ buffered < MaxBuffered
  /\ buffered' = buffered + 1
  /\ UNCHANGED <<config, opVars, mrVars, pollVars, gateVars, compositeVars>>
  /\ UNCHANGED <<callbacks, readyState, options, aborted, closedBy, handled, message>>
  /\ UNCHANGED otherVars

\* The source dispatches a message to onmessage: parse, filter, handler.
\* JSON.parse failures and handler exceptions are swallowed.
Dispatch ==
  /\ buffered > 0
  /\ SourceDispatches(readyState)
  /\ handled < MaxHandled
  /\ buffered' = buffered - 1
  /\ \E m \in Messages :
       /\ message' = m
       /\ handled' = IF Passes(m, options) THEN handled + 1 ELSE handled
  /\ UNCHANGED <<config, opVars, mrVars, pollVars, gateVars, compositeVars>>
  /\ UNCHANGED <<callbacks, readyState, options, aborted, closedBy>>
  /\ UNCHANGED otherVars

\* A close path runs: every one of them calls eventSource.close().
ClosePath(by) ==
  /\ readyState' = CloseEventSource(readyState)
  /\ closedBy' = IF closedBy = "none" THEN by ELSE closedBy

\* The caller invokes the returned close function.
Close ==
  /\ op = "onEvents"
  /\ ClosePath("close")
  /\ UNCHANGED <<config, opVars, mrVars, pollVars, gateVars, compositeVars>>
  /\ UNCHANGED <<callbacks, options, buffered, aborted, handled, message>>
  /\ UNCHANGED otherVars

\* options.signal is aborted: the abort listener runs.
Abort ==
  /\ op = "onEvents"
  /\ options.signal
  /\ ~aborted
  /\ aborted' = TRUE
  /\ ClosePath("abort")
  /\ UNCHANGED <<config, opVars, mrVars, pollVars, gateVars, compositeVars>>
  /\ UNCHANGED <<callbacks, options, buffered, handled, message>>
  /\ UNCHANGED otherVars

\* The source reports an error: onerror closes it; onEvents then calls
\* config.onError inside try/catch, tailEvents rejects its promise.
StreamError ==
  /\ readyState = "open"
  /\ ClosePath("error")
  /\ IF op = "tailEvents"
     THEN op_pc' = "thrown" /\ op_error' = FarameshConnectionError
     ELSE UNCHANGED <<op_pc, op_error>>
  /\ UNCHANGED <<config, op, op_result, mrVars, pollVars, gateVars, compositeVars>>
  /\ UNCHANGED <<callbacks, options, buffered, aborted, handled, message>>
  /\ UNCHANGED otherVars

\* ---------------------------------------------------------------- action lifecycle
MaxObserved == 4          \* successive fetches of one action followed: 0..MaxObserved

\* Everything the client holds outside the lifecycle view.
clientVars ==
  <<config, opVars, mrVars, pollVars, gateVars, compositeVars, callbacks, streamVars, nestVars, moreVars>>

\* The transitions of the action status state machine the server follows.
Lifecycle ==
  ({"allowed", "pending_approval"} \X {"approved", "denied"})
  \cup ({"approved", "allowed"} \X {"executing"})
  \cup ({"executing"} \X {"succeeded", "failed"})

\* The server creates the action.
ServerCreates ==
  /\ serverStatus = "none"
  /\ serverStatus' \in ActionStatus
  /\ UNCHANGED <<clientVars, observed, canonVars>>

\* The server moves the action along one transition.
ServerAdvances ==
  /\ \E t \in ActionStatus :
       /\ <<serverStatus, t>> \in Lifecycle
       /\ serverStatus' = t
  /\ UNCHANGED <<clientVars, observed, canonVars>>

\* One iteration of waitForCompletion's loop: getAction returns the status
\* the server holds; the loop goes on unless that status is completed.
ObserveStatus ==
  /\ serverStatus # "none"
  /\ Len(observed) < MaxObserved
  /\ IF observed = <<>> THEN TRUE ELSE observed[Len(observed)] \notin CompletedStatuses
  /\ observed' = Append(observed, serverStatus)
  /\ UNCHANGED <<clientVars, serverStatus, canonVars>>

\* ---------------------------------------------------------------- ActionSnapshotStore
MaxSize == 2              \* the store is constructed with maxSize in 0..MaxSize
MaxAdds == 4              \* addAction calls followed between two clears: 0..MaxAdds
MaxLimit == 3             \* listRecent is called with limit in 0..MaxLimit

\* The snapshots of one action that addAction is given.
Snapshots == {"first", "second"}

nonStoreVars ==
  <<config, opVars, mrVars, pollVars, gateVars, compositeVars, callbacks, streamVars,
    lifecycleVars, canonVars, nestVars, configVars, toolVars>>

\* Array.prototype.slice(-limit) for limit >= 0: -0 is 0, the whole array.
SliceLast(s, limit) ==
  IF limit = 0 THEN s
  ELSE SubSeq(s, (IF Len(s) > limit THEN Len(s) - limit ELSE 0) + 1, Len(s))

RECURSIVE Reverse(_)
Reverse(s) == IF s = <<>> THEN <<>> ELSE Append(Reverse(Tail(s)), Head(s))

\* "Trim if over max size": one shift of the list and the delete of the id
\* shifted out.
Trimmed(list, map, m) ==
  IF Len(list) > m
  THEN [recent |-> Tail(list), actions |-> [map EXCEPT ![Head(list)] = "undefined"]]
  ELSE [recent |-> list, actions |-> map]

\* addAction(action)
AddAction ==
  /\ Len(added) < MaxAdds
  /\ \E id \in Ids \cup {""}, snap \in Snapshots :
       IF id = ""
       THEN /\ failed' = TRUE
            /\ UNCHANGED <<actions, recent, added>>
       ELSE LET t == Trimmed(Append(recent, id), [actions EXCEPT ![id] = snap], maxSize) IN
            /\ failed' = FALSE
            /\ actions' = t.actions
            /\ recent' = t.recent
            /\ added' = Append(added, [id |-> id, snapshot |-> snap])
  /\ listed' = NoListing
  /\ UNCHANGED <<nonStoreVars, maxSize>>

\* listRecent(limit): the last limit ids, reversed, mapped to their
\* snapshots, without the ids that have none.
ListRecent ==
  /\ \E limit \in 0 .. MaxLimit :
       LET ids == Reverse(SliceLast(recent, limit))
           found == SelectSeq(ids, LAMBDA id : actions[id] # "undefined")
       IN listed' = [limit |-> limit,
                     result |-> [i \in DOMAIN found |-> [id |-> found[i], snapshot |-> actions[found[i]]]]]
  /\ failed' = FALSE
  /\ UNCHANGED <<nonStoreVars, actions, recent, maxSize, added>>

\* clear()
Clear ==
  /\ actions' = [id \in Ids |-> "undefined"]
  /\ recent' = <<>>
  /\ added' = <<>>
  /\ listed' = NoListing
  /\ failed' = FALSE
  /\ UNCHANGED <<nonStoreVars, maxSize>>

\* ---------------------------------------------------------------- canonicalization
Concat(s, t) == s \o t

RECURSIVE Repeat(_, _)
\* c.repeat(n)
Repeat(c, n) == IF n <= 0 THEN <<>> ELSE <<c>> \o Repeat(c, n - 1)

\* s.includes(c)
Includes(s, c) == \E i \in DOMAIN s : s[i] = c

\* s.indexOf(c), 0 when c does not occur
IndexOf(s, c) == IF Includes(s, c) THEN CHOOSE i \in DOMAIN s : s[i] = c /\ \A j \in 1 .. i - 1 : s[j] # c
                 ELSE 0

\* The parts of s.split(c) before and after the first c.
Before(s, c) == IF Includes(s, c) THEN SubSeq(s, 1, IndexOf(s, c) - 1) ELSE s
After(s, c) == IF Includes(s, c) THEN SubSeq(s, IndexOf(s, c) + 1, Len(s)) ELSE <<>>

\* s.slice(from), s.slice(0, to) with 0-based offsets
SliceFrom(s, from) == SubSeq(s, from + 1, Len(s))
SliceTo(s, to) == SubSeq(s, 1, to)

DigitChars == <<"0", "1", "2", "3", "4", "5", "6", "7", "8", "9">>
DigitValue(c) == (CHOOSE i \in DOMAIN DigitChars : DigitChars[i] = c) - 1

RECURSIVE DecimalOf(_)
\* The decimal digits of the natural number m.
DecimalOf(m) == IF m < 10 THEN <<DigitChars[m + 1]>>
                ELSE DecimalOf(m \div 10) \o <<DigitChars[(m % 10) + 1]>>

RECURSIVE NaturalOf(_)
NaturalOf(s) == IF s = <<>> THEN 0 ELSE 10 * NaturalOf(SubSeq(s, 1, Len(s) - 1)) + DigitValue(s[Len(s)])

\* parseInt(s, 10) of an optionally signed digit string
ParseInt(s) ==
  IF s[1] = "-" THEN 0 - NaturalOf(Tail(s))
  ELSE IF s[1] = "+" THEN NaturalOf(Tail(s))
  ELSE NaturalOf(s)

\* Number.prototype.toString() of a finite non-zero number: decimal notation
\* when 10^-7 <= |x| < 10^21, exponent notation otherwise.
NumberToString(x) ==
  LET k == Len(x.digits)
      n == x.n
      e == n - 1
      body ==
        IF k <= n /\ n <= 21 THEN x.digits \o Repeat("0", n - k)
        ELSE IF 0 < n /\ n <= 21 THEN SubSeq(x.digits, 1, n) \o <<".">> \o SubSeq(x.digits, n + 1, k)
        ELSE IF -6 < n /\ n <= 0 THEN <<"0", ".">> \o Repeat("0", 0 - n) \o x.digits
        ELSE (IF k = 1 THEN x.digits ELSE <<x.digits[1], ".">> \o Tail(x.digits))
             \o <<"e", IF e < 0 THEN "-" ELSE "+">> \o DecimalOf(IF e < 0 THEN 0 - e ELSE e)
  IN (IF x.neg THEN <<"-">> ELSE <<>>) \o body

RECURSIVE DropZeros(_)
DropZeros(s) == IF s # <<>> /\ s[Len(s)] = "0" THEN DropZeros(SubSeq(s, 1, Len(s) - 1)) ELSE s

\* str.replace(/\.?0+$/, "")
StripTrailingZeros(s) ==
  LET d == DropZeros(s)
  IN IF d = s THEN s
     ELSE IF d # <<>> /\ d[Len(d)] = "." THEN SubSeq(d, 1, Len(d) - 1)
     ELSE d

\* PointLeft with the padding measured against the integer part of the
\* mantissa, which is where the decimal point stands.
PointLeftByIntPart(intPart, fracPart, absExp) ==
  LET allDigits == intPart \o fracPart
  IN IF absExp >= Len(intPart)
     THEN <<"0", ".">> \o Repeat("0", absExp - Len(intPart)) \o allDigits
     ELSE SliceTo(intPart, Len(intPart) - absExp) \o <<".">>
          \o SliceFrom(allDigits, Len(intPart) - absExp)

\* normalizeFloat, exponent <= 0: "Move decimal point left".
PointLeft(intPart, fracPart, absExp) ==
  LET allDigits == intPart \o fracPart
  IN IF absExp >= Len(allDigits)
     THEN <<"0", ".">> \o Repeat("0", absExp - Len(allDigits)) \o allDigits
     ELSE SliceTo(allDigits, Len(allDigits) - absExp) \o <<".">>
          \o SliceFrom(allDigits, Len(allDigits) - absExp)

\* normalizeFloat, exponent > 0: "Move decimal point right".
PointRight(intPart, fracPart, exponent) ==
  IF Len(fracPart) <= exponent
  THEN intPart \o fracPart \o Repeat("0", exponent - Len(fracPart))
  ELSE intPart \o SliceTo(fracPart, exponent) \o <<".">> \o SliceFrom(fracPart, exponent)

\* normalizeFloat: "Handle scientific notation".
Expand(str, isNegative) ==
  LET mantissa == Before(str, "e")
      exponent == ParseInt(After(str, "e"))
      whole == Before(mantissa, ".")
      intPart == IF Includes(whole, "-") THEN Tail(whole) ELSE whole
      fracPart == After(mantissa, ".")
      moved == IF exponent > 0 THEN PointRight(intPart, fracPart, exponent)
               ELSE PointLeft(intPart, fracPart, 0 - exponent)
  IN IF isNegative /\ moved[1] # "-" THEN <<"-">> \o moved ELSE moved

CanonicalizeError == [name |-> "CanonicalizeError", statusCode |-> 0, reports |-> "none"]

\* The outcome of a serialization: the string built, or the error thrown.
Text(s) == [error |-> NoError, text |-> s]
Failure(e) == [error |-> e, text |-> <<>>]

\* normalizeFloat(value)
NormalizeFloat(x) ==
  IF x.t = "NaN" THEN Failure(CanonicalizeError)
  ELSE IF x.t = "Infinity" THEN Failure(CanonicalizeError)
  ELSE IF x.t = "zero" THEN Text(<<"0">>)
  ELSE LET str == NumberToString(x)
           expanded == IF Includes(str, "e") THEN Expand(str, x.neg) ELSE str
       IN Text(IF Includes(expanded, ".") THEN StripTrailingZeros(expanded) ELSE expanded)

\* The characters of the model in ascending order of their UTF-16 code unit.
CodeOrder ==
  <<"\t", "\n", "\f", "\r", "\"", "0", "1", "2", "3", "4", "5", "6", "7", "8", "9",
   "A", "B", "C", "D", "E", "F", "G", "H", "I", "J", "K", "L", "M", "N", "O", "P", "Q", "R", "S", "T", "U", "V", "W", "X", "Y", "Z",
   "\\", "_", "a", "b", "c", "d", "e", "f", "g", "h", "i", "j", "k", "l", "m",
   "n", "o", "p", "q", "r", "s", "t", "u", "v", "w", "x", "y", "z">>
CharCode(c) == CHOOSE i \in DOMAIN CodeOrder : CodeOrder[i] = c
ControlChars == {"\t", "\n", "\f", "\r"}
EscapeLetter(c) == IF c = "\t" THEN "t" ELSE IF c = "\n" THEN "n" ELSE IF c = "\f" THEN "f" ELSE "r"

RECURSIVE EscapeChars(_)
EscapeChars(str) ==
  IF str = <<>> THEN <<>>
  ELSE LET c == Head(str)
       IN (IF c = "\"" THEN <<"\\", "\"">>
           ELSE IF c = "\\" THEN <<"\\", "\\">>
           ELSE IF c \in ControlChars THEN <<"\\", EscapeLetter(c)>>
           ELSE <<c>>) \o EscapeChars(Tail(str))

\* serializeString(value)
SerializeString(str) == <<"\"">> \o EscapeChars(str) \o <<"\"">>

RECURSIVE KeyLess(_, _)
\* a < b as Array.prototype.sort compares strings: by code units, a proper
\* prefix first.
KeyLess(a, b) ==
  IF b = <<>> THEN FALSE
  ELSE IF a = <<>> THEN TRUE
  ELSE IF CharCode(Head(a)) # CharCode(Head(b)) THEN CharCode(Head(a)) < CharCode(Head(b))
  ELSE KeyLess(Tail(a), Tail(b))

\* The sequence s without its element at position i.
Without(s, i) == SubSeq(s, 1, i - 1) \o SubSeq(s, i + 1, Len(s))

\* Mutant of SortKeys: the keys stay in insertion order.
KeysAsInserted(keys) == keys

RECURSIVE SortKeys(_)
\* Object.keys(value).sort()
SortKeys(keys) ==
  IF keys = <<>> THEN <<>>
  ELSE LET i == CHOOSE i \in DOMAIN keys : \A j \in DOMAIN keys : ~KeyLess(keys[j], keys[i])
       IN <<keys[i]>> \o SortKeys(Without(keys, i))

\* value[key]
Get(obj, key) == obj.items[CHOOSE i \in DOMAIN obj.keys : obj.keys[i] = key]

RECURSIVE Join(_)
\* parts.join(",")
Join(parts) ==
  IF parts = <<>> THEN <<>>
  ELSE IF Len(parts) = 1 THEN parts[1]
  ELSE parts[1] \o <<",">> \o Join(Tail(parts))

RECURSIVE SerializeValue(_)
\* serializeValue(value), with serializeObject and serializeArray
SerializeValue(v) ==
  IF v.t \in {"null", "undefined"} THEN Text(<<"n", "u", "l", "l">>)
  ELSE IF v.t = "true" THEN Text(<<"t", "r", "u", "e">>)
  ELSE IF v.t = "false" THEN Text(<<"f", "a", "l", "s", "e">>)
  ELSE IF v.t \in {"number", "zero", "NaN", "Infinity"} THEN NormalizeFloat(v)
  ELSE IF v.t = "string" THEN Text(SerializeString(v.str))
  ELSE IF v.t = "array" THEN
    LET parts == [i \in DOMAIN v.items |-> SerializeValue(v.items[i])]
    IN IF \E i \in DOMAIN parts : parts[i].error # NoError THEN Failure(CanonicalizeError)
       ELSE Text(<<"[">> \o Join([i \in DOMAIN parts |-> parts[i].text]) \o <<"]">>)
  ELSE \* object
    LET keys == SortKeys(v.keys)
        vals == [i \in DOMAIN keys |-> SerializeValue(Get(v, keys[i]))]
        parts == [i \in DOMAIN keys |-> SerializeString(keys[i]) \o <<":">> \o vals[i].text]
    IN IF \E i \in DOMAIN vals : vals[i].error # NoError THEN Failure(CanonicalizeError)
       ELSE Text(<<"{">> \o Join(parts) \o <<"}">>)

\* Positions of an object's entries that JSON.stringify keeps.
Kept(v) == {i \in DOMAIN v.keys : v.items[i].t # "undefined"}

RECURSIVE Pick(_, _, _)
\* The elements of s at the positions of set, in order, from position i on.
Pick(s, set, i) ==
  IF i > Len(s) THEN <<>>
  ELSE (IF i \in set THEN <<s[i]>> ELSE <<>>) \o Pick(s, set, i + 1)

\* canonicalize without its deep copy: the value is serialized as passed in.
NoDeepCopy(v) == v

RECURSIVE DeepCopy(_)
\* JSON.parse(JSON.stringify(obj)) of a value other than undefined: a
\* non-finite number becomes null, -0 becomes 0, an undefined array element
\* becomes null and an undefined property is left out.
DeepCopy(v) ==
  IF v.t \in {"NaN", "Infinity", "undefined"} THEN Null
  ELSE IF v.t = "zero" THEN Node("zero")
  ELSE IF v.t = "array" THEN [v EXCEPT !.items = [i \in DOMAIN v.items |-> DeepCopy(v.items[i])]]
  ELSE IF v.t = "object" THEN
    LET keys == Pick(v.keys, Kept(v), 1)
        items == Pick(v.items, Kept(v), 1)
    IN [v EXCEPT !.keys = keys, !.items = [i \in DOMAIN items |-> DeepCopy(items[i])]]
  ELSE v

SyntaxError == [name |-> "SyntaxError", statusCode |-> 0, reports |-> "none"]

\* canonicalize(obj); JSON.parse(undefined) throws a SyntaxError.
Canonicalize(obj) ==
  IF obj.t = "undefined" THEN Failure(SyntaxError)
  ELSE SerializeValue(DeepCopy(obj))

ACTION_EXCLUDE_FIELDS ==
  {<<"i", "d">>,
   <<"a", "p", "p", "r", "o", "v", "a", "l", "_", "t", "o", "k", "e", "n">>,
   <<"c", "r", "e", "a", "t", "e", "d", "_", "a", "t">>,
   <<"u", "p", "d", "a", "t", "e", "d", "_", "a", "t">>,
   <<"t", "e", "n", "a", "n", "t", "_", "i", "d">>,
   <<"p", "r", "o", "j", "e", "c", "t", "_", "i", "d">>,
   <<"v", "e", "r", "s", "i", "o", "n">>,
   <<"d", "e", "c", "i", "s", "i", "o", "n">>,
   <<"s", "t", "a", "t", "u", "s">>,
   <<"r", "e", "a", "s", "o", "n">>,
   <<"r", "i", "s", "k", "_", "l", "e", "v", "e", "l">>,
   <<"p", "o", "l", "i", "c", "y", "_", "v", "e", "r", "s", "i", "o", "n">>,
   <<"p", "o", "l", "i", "c", "y", "_", "h", "a", "s", "h">>,
   <<"r", "u", "n", "t", "i", "m", "e", "_", "v", "e", "r", "s", "i", "o", "n">>,
   <<"p", "r", "o", "f", "i", "l", "e", "_", "i", "d">>,
   <<"p", "r", "o", "f", "i", "l", "e", "_", "v", "e", "r", "s", "i", "o", "n">>,
   <<"p", "r", "o", "f", "i", "l", "e", "_", "h", "a", "s", "h">>,
   <<"p", "r", "o", "v", "e", "n", "a", "n", "c", "e", "_", "i", "d">>,
   <<"o", "u", "t", "c", "o", "m", "e">>,
   <<"r", "e", "a", "s", "o", "n", "_", "c", "o", "d", "e">>,
   <<"r", "e", "a", "s", "o", "n", "_", "d", "e", "t", "a", "i", "l", "s">>,
   <<"r", "e", "q", "u", "e", "s", "t", "_", "h", "a", "s", "h">>}

\* Mutant of Excluded: underscore-prefixed fields are kept.
ExcludedByNameOnly(key) == key \in ACTION_EXCLUDE_FIELDS

\* ACTION_EXCLUDE_FIELDS.has(key) || key.startsWith("_")
Excluded(key) == key \in ACTION_EXCLUDE_FIELDS \/ (key # <<>> /\ key[1] = "_")

\* canonicalizeActionPayload(payload)
CanonicalizeActionPayload(p) ==
  LET keep == {i \in DOMAIN p.keys : ~Excluded(p.keys[i])}
      cleanPayload == [p EXCEPT !.keys = Pick(p.keys, keep, 1), !.items = Pick(p.items, keep, 1)]
  IN Canonicalize(cleanPayload)

\* crypto.createHash("sha256").update(bytes).digest("hex"): the digest is a
\* function of the bytes alone; distinct strings are taken to have distinct
\* digests.
Sha256(text) == <<"sha256">> \o text

\* computeHash(obj) and computeRequestHash(payload)
ComputeHash(obj) ==
  LET c == Canonicalize(obj) IN IF c.error # NoError THEN c ELSE Text(Sha256(c.text))
ComputeRequestHash(p) ==
  LET c == CanonicalizeActionPayload(p) IN IF c.error # NoError THEN c ELSE Text(Sha256(c.text))

\* The three exported functions, applied to payload.
Canonicalizers == {"canonicalize", "computeHash", "computeRequestHash"}
Apply(name, v) ==
  IF name = "canonicalize" THEN Canonicalize(v)
  ELSE IF name = "computeHash" THEN ComputeHash(v)
  ELSE ComputeRequestHash(v)

CallCanonical(name) ==
  /\ op = "none"
  /\ op' = name
  /\ LET r == Apply(name, payload)
     IN /\ op_pc' = IF r.error = NoError THEN "returned" ELSE "thrown"
        /\ op_error' = r.error
        /\ canonical' = r.text
  /\ UNCHANGED <<config, op_result, mrVars, pollVars, gateVars, compositeVars>>
  /\ UNCHANGED <<callbacks, streamVars, lifecycleVars, payload, nestVars, moreVars>>

CallCanonicalize == CallCanonical("canonicalize")
CallComputeHash == CallCanonical("computeHash")
CallComputeRequestHash == payload.t = "object" /\ CallCanonical("computeRequestHash")

\* Builders of values.
Num(neg, digits, n) == [Node("number") EXCEPT !.neg = neg, !.digits = digits, !.n = n]
Str(str) == [Node("string") EXCEPT !.str = str]
Arr(items) == [Node("array") EXCEPT !.items = items]
Obj(keys, items) == [Node("object") EXCEPT !.keys = keys, !.items = items]

\* Sequences of exactly n and of at most n elements of S.
Tuples(S, n) == [1 .. n -> S]
UpTo(S, n) == UNION {Tuples(S, m) : m \in 0 .. n}
Distinct(s) == \A i, j \in DOMAIN s : s[i] = s[j] => i = j

\* ---------------------------------------------------------------- specification
Next ==
  \/ CallWrapper
  \/ WrapperDone
  \/ Attempt
  \/ Backoff
  \/ CallWaitForCompletion
  \/ WaitAfterFetch
  \/ WaitSleepDone
  \/ CallBlockUntilApproved
  \/ BlockAfterFetch
  \/ BlockSleepDone
  \/ CallExecuteIfAllowed
  \/ ExecuteAfterDecide
  \/ ExecutorSettles

Spec == Init /\ [][Next]_vars

\* The two polling operations.  Every awaited promise settles and every
\* timer fires: whatever step the running operation is waiting for is
\* eventually taken.
InitLive == Init /\ config.maxRetries <= MaxRetriesOps /\ config.retryBackoffFactor = 1

NextLive ==
  \/ Attempt
  \/ Backoff
  \/ CallWaitForCompletion
  \/ WaitAfterFetch
  \/ WaitSleepDone
  \/ CallBlockUntilApproved
  \/ BlockAfterFetch
  \/ BlockSleepDone

LiveSpec == InitLive /\ [][NextLive]_vars /\ WF_vars(NextLive)

\* The composite operations, under a smaller retry budget.
InitOps == Init /\ config.maxRetries <= MaxRetriesOps /\ config.retryBackoffFactor = 1

NextOps ==
  \/ Attempt
  \/ Backoff
  \/ CallApproval
  \/ ApprovalAfterFetch
  \/ CallReplayAction
  \/ ReplayAfterFetch
  \/ LastRequestDone
  \/ CallBatch
  \/ BatchAfterSubmit
  \/ CallReplayDecision
  \/ ReplayDecisionAfterFetch
  \/ ReplayDecisionAfterDecide
  \/ CallWrapper
  \/ WrapperDone
  \/ CallExecuteIfAllowed
  \/ ExecuteAfterDecide
  \/ ExecutorSettles

SpecOps == InitOps /\ [][NextOps]_vars

\* The comparison of replayDecision as a function of the original and the
\* fresh decision, over every combination of the six fields.
InitReplay ==
  /\ config \in {c \in Configs : c.maxRetries = 0 /\ c.retryBackoffFactor = 1}
  /\ op = "replayDecision"
  /\ op_pc = "comparing"
  /\ IdleRequest
  /\ args = [NoArgs EXCEPT !.by = "actionId"]
  /\ original \in OriginalGateFields
  /\ replayed \in ReplayedGateFields
  /\ callbacks = AllReturn
  /\ NoStream
  /\ Other

NextReplay == Compare

\* The thin wrappers under every combination of absent, returning and
\* throwing instrumentation callbacks.
InitCallbacks ==
  /\ config \in {c \in Configs : c.maxRetries <= MaxRetriesOps /\ c.retryBackoffFactor = 1}
  /\ op = "none"
  /\ op_pc = "idle"
  /\ IdleRequest
  /\ args = NoArgs
  /\ original = NoFields
  /\ replayed = NoFields
  /\ callbacks \in Callbacks
  /\ NoStream
  /\ Other

NextCallbacks ==
  \/ CallWrapper
  \/ WrapperDone
  \/ Attempt
  \/ Backoff

SpecCallbacks == InitCallbacks /\ [][NextCallbacks]_vars

\* The event subscription: the source, the caller and the signal run
\* concurrently.
NextEvents ==
  \/ Subscribe
  \/ Receive
  \/ Dispatch
  \/ Close
  \/ Abort
  \/ StreamError

SpecEvents == Init /\ [][NextEvents]_vars

SpecReplay == InitReplay /\ [][NextReplay]_vars

\* A client that has issued no request, under one configuration.
ClientIdle ==
  /\ config = [maxRetries |-> 0, retryBackoffFactor |-> 1]
  /\ op = "none"
  /\ op_pc = "idle"
  /\ IdleRequest
  /\ args = NoArgs
  /\ original = NoFields
  /\ replayed = NoFields
  /\ callbacks = AllReturn
  /\ NoStream
  /\ NoLifecycle
  /\ NoNesting
  /\ NoMore
  /\ canonical = <<>>

\* canonicalize and computeHash of mappings and sequences, two levels deep.
MaxKeys == 2              \* the outer mapping holds 0..MaxKeys entries
MapKeys == {<<"a">>, <<"a", "b">>, <<"B">>}
MapLeaves == {Num(FALSE, <<"1">>, 1), Str(<<"b">>)}
InnerItems == {i \in Tuples(MapLeaves, 2) : Distinct(i)}
InnerValues ==
  MapLeaves
  \cup {Obj(k, i) : k \in {<< <<"a">>, <<"B">> >>, << <<"B">>, <<"a">> >>}, i \in InnerItems}
  \cup {Arr(i) : i \in InnerItems}
MapInputs ==
  UNION {{Obj(k, i) : k \in {s \in Tuples(MapKeys, m) : Distinct(s)}, i \in Tuples(InnerValues, m)} :
         m \in 0 .. MaxKeys}
  \cup {Arr(i) : i \in Tuples(InnerValues, 2)}

InitMaps == ClientIdle /\ payload \in MapInputs

NextMaps ==
  \/ CallCanonicalize
  \/ CallComputeHash

SpecMaps == InitMaps /\ [][NextMaps]_vars

\* canonicalize of finite numbers: 0, -0 and every +-0.d1..dk * 10^n with
\* up to MaxDigits digits and the decimal point between MaxSmall places to
\* the left and MaxLarge places to the right of the first digit.
MaxDigits == 3
MaxSmall == 8
MaxLarge == 23
DigitStrings ==
  {d \in UpTo({"0", "1", "5"}, MaxDigits) : d # <<>> /\ d[1] # "0" /\ d[Len(d)] # "0"}
NumberInputs ==
  {Num(neg, d, n) : neg \in BOOLEAN, d \in DigitStrings, n \in (0 - MaxSmall) .. MaxLarge}
  \cup {[Node("zero") EXCEPT !.neg = neg] : neg \in BOOLEAN}

InitNumbers == ClientIdle /\ payload \in NumberInputs

NextNumbers == CallCanonicalize

SpecNumbers == InitNumbers /\ [][NextNumbers]_vars

\* The three functions applied to a non-finite number, bare or one or two
\* levels inside sequences and mappings.
NonFinite == {Node("NaN"), Node("Infinity"), [Node("Infinity") EXCEPT !.neg = TRUE]}
Around(S) ==
  {Arr(<<x, l>>) : x \in S, l \in MapLeaves}
  \cup {Arr(<<l, x>>) : x \in S, l \in MapLeaves}
  \cup {Obj(<<k>>, <<x>>) : k \in MapKeys, x \in S}
NonFiniteInputs == NonFinite \cup Around(NonFinite) \cup Around(Around(NonFinite))

InitNonFinite == ClientIdle /\ payload \in NonFiniteInputs

NextNonFinite ==
  \/ CallCanonicalize
  \/ CallComputeHash
  \/ CallComputeRequestHash

SpecNonFinite == InitNonFinite /\ [][NextNonFinite]_vars

\* computeRequestHash of payloads holding any of a hashed field, a field of
\* the exclusion set and an underscore-prefixed field.
PayloadKeys == << <<"t", "o", "o", "l">>, <<"i", "d">>, <<"_", "x">> >>
PayloadValues ==
  {Null, Node("NaN"), Str(<<"b">>), Num(FALSE, <<"1">>, 1),
   Num(FALSE, <<"1", "5">>, -5), Num(FALSE, <<"1", "5">>, -6)}
PayloadInputs ==
  {Obj(Pick(PayloadKeys, present, 1), Pick(items, present, 1)) :
     present \in SUBSET DOMAIN PayloadKeys, items \in Tuples(PayloadValues, Len(PayloadKeys))}

InitPayloads == ClientIdle /\ payload \in PayloadInputs

NextPayloads == CallComputeRequestHash

SpecPayloads == InitPayloads /\ [][NextPayloads]_vars

\* waitForCompletion against a server whose k-th getAction answers with the
\* k-th status of MockStatuses.
MockStatuses == <<"pending_approval", "executing", "succeeded">>

MockedAttempt ==
  /\ polls <= Len(MockStatuses)
  /\ Attempt
  /\ outcomes'[1].kind = "response"
  /\ outcomes'[1].data.status = MockStatuses[polls]

InitMock == ClientIdle /\ payload = Undefined

NextMock ==
  \/ CallWaitForCompletion
  \/ MockedAttempt
  \/ WaitAfterFetch
  \/ WaitSleepDone

SpecMock == InitMock /\ [][NextMock]_vars

\* One ActionSnapshotStore under any sequence of its operations.
InitStore ==
  /\ config = [maxRetries |-> 0, retryBackoffFactor |-> 1]
  /\ op = "none"
  /\ op_pc = "idle"
  /\ IdleRequest
  /\ args = NoArgs
  /\ original = NoFields
  /\ replayed = NoFields
  /\ callbacks = AllReturn
  /\ NoStream
  /\ NoLifecycle
  /\ NoCanon
  /\ NoNesting
  /\ NoGlobal
  /\ NoTool
  /\ EmptyStore
  /\ maxSize \in 0 .. MaxSize

NextStore ==
  \/ AddAction
  \/ ListRecent
  \/ Clear

SpecStore == InitStore /\ [][NextStore]_vars

\* One action on the server, fetched repeatedly by a waiting client.
NextLifecycle ==
  \/ ServerCreates
  \/ ServerAdvances
  \/ ObserveStatus

SpecLifecycle == Init /\ [][NextLifecycle]_vars

\* approveAction / denyAction against a server that holds one action in
\* pending_approval while a second approver may decide it at any moment.
\* A successful getAction answers with the status the server holds.
OtherApproverDecides ==
  /\ serverStatus = "pending_approval"
  /\ serverStatus' \in {"approved", "denied"}
  /\ UNCHANGED <<clientVars, observed, canonVars>>

ServedAttempt ==
  /\ Attempt
  /\ (method = "GET" /\ outcomes'[Len(outcomes')].kind = "response") =>
       outcomes'[Len(outcomes')].data.status = serverStatus

InitRace ==
  /\ config \in {c \in Configs : c.maxRetries <= MaxRetriesOps /\ c.retryBackoffFactor = 1}
  /\ op = "none"
  /\ op_pc = "idle"
  /\ IdleRequest
  /\ args = NoArgs
  /\ original = NoFields
  /\ replayed = NoFields
  /\ callbacks = AllReturn
  /\ NoStream
  /\ NoCanon
  /\ NoNesting
  /\ NoMore
  /\ serverStatus = "pending_approval"
  /\ observed = <<>>

NextRace ==
  \/ CallApproval
  \/ ServedAttempt
  \/ Backoff
  \/ ApprovalAfterFetch
  \/ LastRequestDone
  \/ OtherApproverDecides

SpecRace == InitRace /\ [][NextRace]_vars

\* Requests under a configuration that configure replaces at any moment.
InitConfigure ==
  /\ config \in {c \in Configs : c.maxRetries = 0 /\ c.retryBackoffFactor = 1}
  /\ op = "none"
  /\ op_pc = "idle"
  /\ IdleRequest
  /\ args = NoArgs
  /\ original = NoFields
  /\ replayed = NoFields
  /\ callbacks = [onRequestStart |-> "absent", onRequestEnd |-> "absent", onError |-> "absent"]
  /\ NoStream
  /\ NoLifecycle
  /\ NoCanon
  /\ NoNesting
  /\ client = NoClient
  /\ NoTool
  /\ NoStore
  /\ \E o \in ConfigureOptions :
       /\ lastOptions = o
       /\ globalConfig = Configured(o, NullConfig)

NextConfigure ==
  \/ Configure
  \/ CallConfigured
  \/ Attempt
  \/ Backoff
  \/ WrapperDone

SpecConfigure == InitConfigure /\ [][NextConfigure]_vars

\* submitAndWait with the operations it awaits, under a configuration
\* without retries: no request backs off.
InitSubmitAndWait == Init /\ config.maxRetries = 0 /\ config.retryBackoffFactor = 1

NextSubmitAndWait ==
  \/ CallSubmitAndWait
  \/ Attempt
  \/ SubmitAndWaitAfterSubmit
  \/ BlockAfterFetch
  \/ BlockSleepDone
  \/ SubmitAndWaitAfterApproval
  \/ SubmitAndWaitAfterStart
  \/ WaitAfterFetch
  \/ WaitSleepDone
  \/ SubmitAndWaitSettles

SpecSubmitAndWait == InitSubmitAndWait /\ [][NextSubmitAndWait]_vars

\* The wrapper of governedTool with the operations it awaits, under a
\* configuration without retries.
NextGoverned ==
  \/ CallGovernedTool
  \/ Attempt
  \/ GovernedAfterSubmit
  \/ BlockAfterFetch
  \/ BlockSleepDone
  \/ GovernedAfterApproval
  \/ GovernedAfterStart
  \/ WaitAfterFetch
  \/ WaitSleepDone
  \/ GovernedSettles

SpecGoverned == InitSubmitAndWait /\ [][NextGoverned]_vars

\* ---------------------------------------------------------------- properties
\* Physical attempts of the current logical request: settled and in flight.
Attempts == Len(outcomes) + (IF mr_pc = "inflight" THEN 1 ELSE 0)

Is5xx(o) == o.kind = "axiosError" /\ o.status >= 500

\* C1: in executeIfAllowed the executor is invoked at most once, and only
\* after gateDecide returned a decision with outcome EXECUTE; on any other
\* outcome the result has executed = false and the executor never ran, and
\* when gateDecide fails the executor never ran.
C1_ExecutorOnlyOnExecute ==
  /\ executorCalls <= 1
  /\ executorCalls = 1 =>
       /\ op = "executeIfAllowed"
       /\ mr_pc = "returned"
       /\ path = "/v1/gate/decide"
       /\ responseData.outcome = "EXECUTE"
       /\ result.decision = responseData
       /\ executor
  /\ (op = "executeIfAllowed" /\ mr_pc = "thrown") => executorCalls = 0
  /\ (op = "executeIfAllowed" /\ op_pc = "returned"
        /\ result.decision.outcome \in {"HALT", "ABSTAIN"}) =>
       executorCalls = 0 /\ ~result.executed

C1_Witness ==
  /\ op = "executeIfAllowed"
  /\ op_pc = "returned"
  /\ executorCalls = 1
  /\ result.executed
  /\ result.decision.outcome = "EXECUTE"

\* C2: one logical request makes at least 1 and at most maxRetries + 1
\* physical attempts, whatever the transport answers.
C2_AttemptsBounded ==
  /\ Attempts <= config.maxRetries + 1
  /\ mr_pc # "idle" => Attempts >= 1
  /\ MRDone => Len(outcomes) >= 1

C2_Witness ==
  /\ MRDone
  /\ config.maxRetries = MaxRetriesBound
  /\ Len(outcomes) = config.maxRetries + 1

\* C3: an attempt answered 401, 404 or 422 is the last one: the request has
\* failed with the authentication, not-found or validation error, and the
\* only sleeps are those that preceded that attempt.
C3_TerminalStatusesNotRetried ==
  \A i \in 1 .. Len(outcomes) :
    (outcomes[i].kind = "axiosError" /\ outcomes[i].status \in {401, 404, 422}) =>
      /\ i = Len(outcomes)
      /\ mr_pc = "thrown"
      /\ Len(delays) = i - 1
      /\ attempt = i - 1
      /\ thrown.name = CASE outcomes[i].status = 401 -> "FarameshAuthError"
                         [] outcomes[i].status = 404 -> "FarameshNotFoundError"
                         [] OTHER -> "FarameshValidationError"

C3_Witness ==
  /\ config.maxRetries >= 1
  /\ Len(outcomes) = 1
  /\ outcomes[1].status = 401
  /\ mr_pc = "thrown"
  /\ thrown = FarameshAuthError
  /\ delays = <<>>

\* Outcome i was followed by the backoff of attempt i - 1 and then by the
\* next attempt; while the request is in "backoff" that sleep is running.
RetriedAfter(i) ==
  \/ i = Len(outcomes) /\ mr_pc = "backoff" /\ Len(delays) = i - 1
  \/ /\ Len(delays) >= i
     /\ delays[i] = config.retryBackoffFactor * (2 ^ (i - 1)) * 1000
     /\ Attempts >= i + 1

\* A 5xx answer to an attempt that has retries left is retried with backoff.
ServerErrorsRetried ==
  \A i \in 1 .. Len(outcomes) :
    (Is5xx(outcomes[i]) /\ i - 1 < config.maxRetries) => RetriedAfter(i)

\* The transport answered exactly 500, 500, 200.
Saw500Then500Then200 ==
  /\ config.maxRetries >= 2
  /\ Len(outcomes) = 3
  /\ outcomes[1].kind = "axiosError" /\ outcomes[1].status = 500
  /\ outcomes[2].kind = "axiosError" /\ outcomes[2].status = 500
  /\ outcomes[3].kind = "response"

ThirdAttemptDelays ==
  /\ attempt = 2
  /\ delays = <<config.retryBackoffFactor * 1000, config.retryBackoffFactor * 2000>>

\* A body the submit endpoint rejects as a policy denial.
DeniedBody(d) ==
  d.status = "denied" \/ (d.decision = "deny" /\ d.status # "pending_approval")

\* C4 (as stated): 5xx on attempt k < maxRetries is followed by a sleep of
\* backoffFactor * 2^k seconds and attempt k + 1; after 500, 500, 200 the
\* request returns the 200 payload on the third attempt.
C4_Original ==
  /\ ServerErrorsRetried
  /\ Saw500Then500Then200 =>
       /\ ThirdAttemptDelays
       /\ mr_pc = "returned"
       /\ responseData = outcomes[3].data

\* C4 (amended): as C4, except that after 500, 500, 200 on POST /v1/actions
\* a 200 payload that is a policy denial is not returned: the request fails
\* with FarameshPolicyError, still on the third attempt after both delays.
C4_BackoffExponential ==
  /\ ServerErrorsRetried
  /\ Saw500Then500Then200 =>
       /\ ThirdAttemptDelays
       /\ IF method = "POST" /\ path = "/v1/actions" /\ DeniedBody(outcomes[3].data)
          THEN mr_pc = "thrown" /\ thrown.name = "FarameshPolicyError"
          ELSE mr_pc = "returned" /\ responseData = outcomes[3].data

C4_Witness ==
  /\ Saw500Then500Then200
  /\ mr_pc = "returned"
  /\ config.retryBackoffFactor = 2
  /\ delays = <<2000, 4000>>
  /\ responseData.status = "succeeded"

\* A connection failure that is no timeout: refused, or DNS failure.
IsConnectionFailure(o) ==
  /\ o.kind = "axiosError"
  /\ o.status = 0
  /\ o.code \in {"ECONNREFUSED", "ENOTFOUND"}
  /\ ~o.msgTimeout

\* C5: a connection failure that is not a hard timeout is retried like a
\* 5xx: backoff of backoffFactor * 2^attempt seconds and a new attempt while
\* retries are left, and FarameshConnectionError once they are exhausted.
C5_ConnectionFailureRetried ==
  \A i \in 1 .. Len(outcomes) :
    IsConnectionFailure(outcomes[i]) =>
      IF i - 1 < config.maxRetries
      THEN RetriedAfter(i)
      ELSE mr_pc = "thrown" /\ thrown.name = "FarameshConnectionError"

\* C6: when every one of the maxRetries + 1 attempts is answered 5xx the
\* request fails after the last attempt, not earlier, with
\* FarameshServerError.
C6_ServerErrorSurfaced ==
  (MRDone /\ \A i \in 1 .. Len(outcomes) : Is5xx(outcomes[i])) =>
    /\ Len(outcomes) = config.maxRetries + 1
    /\ mr_pc = "thrown"
    /\ thrown.name = "FarameshServerError"

\* C7: a hard request timeout (axios code ECONNABORTED) on any attempt ends
\* the request at once with FarameshTimeoutError: no sleep and no attempt
\* follows it, whatever retries are left.
C7_HardTimeoutImmediate ==
  \A i \in 1 .. Len(outcomes) :
    (outcomes[i].kind = "axiosError" /\ outcomes[i].code = "ECONNABORTED") =>
      /\ i = Len(outcomes)
      /\ mr_pc = "thrown"
      /\ thrown.name = "FarameshTimeoutError"
      /\ Len(delays) = i - 1
      /\ attempt = i - 1

C7_Witness ==
  /\ config.maxRetries = 2
  /\ Len(outcomes) = 2
  /\ outcomes[2].code = "ECONNABORTED"
  /\ mr_pc = "thrown"
  /\ thrown.name = "FarameshTimeoutError"
  /\ Len(delays) = 1

\* C8: a 2xx answer ends the request.  On POST /v1/actions a denial body
\* fails it with FarameshPolicyError; decision "deny" with status
\* "pending_approval" is returned; on every other endpoint every body is
\* returned.
C8_PolicyDenialOnSubmitOnly ==
  \A i \in 1 .. Len(outcomes) :
    outcomes[i].kind = "response" =>
      /\ i = Len(outcomes)
      /\ MRDone
      /\ IF method = "POST" /\ path = "/v1/actions" /\ DeniedBody(outcomes[i].data)
         THEN mr_pc = "thrown" /\ thrown.name = "FarameshPolicyError"
         ELSE mr_pc = "returned" /\ responseData = outcomes[i].data

C8_Witness ==
  /\ op = "submitAction"
  /\ op_pc = "thrown"
  /\ op_error.name = "FarameshPolicyError"
  /\ outcomes[Len(outcomes)].data.decision = "deny"
  /\ outcomes[Len(outcomes)].data.status = "allowed"

\* C9: waitForCompletion returns only a snapshot whose status is succeeded,
\* failed or denied, and the first one it fetches (no earlier fetch saw
\* such a status); on any other status it sleeps and polls again while the
\* elapsed time does not exceed timeout, and fails once it does with the
\* timeout error reporting the status last observed.
C9_WaitForCompletion ==
  op = "waitForCompletion" =>
    /\ op_pc = "returned" =>
         /\ op_result.status \in {"succeeded", "failed", "denied"}
         /\ op_result = responseData
         /\ status = op_result.status
    /\ (op_pc \in {"sleeping", "awaitRequest"} /\ polls > 1) =>
         status \notin {"succeeded", "failed", "denied"}
    /\ op_pc = "sleeping" => elapsed <= timeout /\ mr_pc = "returned"
    /\ (op_pc = "thrown" /\ mr_pc = "returned") =>
         /\ elapsed > timeout
         /\ status \notin {"succeeded", "failed", "denied"}
         /\ status = responseData.status
         /\ op_error.name = "FarameshTimeoutError"
         /\ op_error.reports = status

C9_Witness ==
  /\ op = "waitForCompletion"
  /\ op_pc = "thrown"
  /\ mr_pc = "returned"
  /\ polls >= 2
  /\ op_error.name = "FarameshTimeoutError"
  /\ op_error.reports = "executing"

\* C10: blockUntilApproved sleeps and polls again only after having
\* observed pending_approval: every other status of the enumeration ends
\* the operation at the fetch that observes it.
C10_PollsOnlyWhilePending ==
  (op = "blockUntilApproved" /\ op_pc = "sleeping" /\ status \in ActionStatus) =>
    status = "pending_approval"

\* C11: every call of waitForCompletion and of blockUntilApproved eventually
\* returns or fails, whatever statuses the server reports, provided each
\* fetch settles and each timer fires.
C11_PollingTerminates == Polling ~> (Polling /\ op_pc \in {"returned", "thrown"})

\* A poll loop that is ended by its deadline after having slept on a
\* non-terminal status.
C11_Witness ==
  /\ Polling
  /\ op_pc = "thrown"
  /\ op_error.name = "FarameshTimeoutError"
  /\ polls >= 2
  /\ status \in {"pending_approval", "executing"}

\* The approval POSTs and the fetches among the logical requests so far.
ApprovalPosts == SelectSeq(requests, LAMBDA r : r.method = "POST")
ActionFetches == SelectSeq(requests, LAMBDA r : r.method = "GET")

\* C12: approveAction / denyAction without a token fetch the action first
\* and send the approval POST only if the fetch observed pending_approval
\* and a non-empty approval token, which is the token sent; when the fetch
\* observed anything else they fail with a usage error and send no POST.
\* With a token they fetch nothing and send exactly one POST.  The POST
\* carries approve = true in approveAction and approve = false in denyAction.
C12_ApprovalGuarded ==
  op \in ApprovalOps =>
    /\ Len(ApprovalPosts) <= 1
    /\ \A i \in 1 .. Len(ApprovalPosts) :
         /\ ApprovalPosts[i].path = "/v1/actions/{id}/approval"
         /\ ApprovalPosts[i].body.approve = (op = "approveAction")
    /\ Truthy(args.token) =>
         /\ Len(ActionFetches) = 0
         /\ Len(ApprovalPosts) = 1
         /\ ApprovalPosts[1].body.token = args.token
    /\ ~Truthy(args.token) =>
         /\ Len(ActionFetches) = 1
         /\ requests[1].method = "GET"
         /\ Len(ApprovalPosts) = 1 =>
              /\ original.status = "pending_approval"
              /\ Truthy(original.approval_token)
              /\ ApprovalPosts[1].body.token = original.approval_token
         /\ (op_pc # "awaitFetch" /\ original # NoFields
             /\ ~(original.status = "pending_approval" /\ Truthy(original.approval_token))) =>
              /\ op_pc = "thrown"
              /\ op_error = FarameshError(0)
              /\ Len(ApprovalPosts) = 0

\* denyAction, called without a token, has fetched a pending action and
\* sent its token with approve = false.
C12_Witness ==
  /\ op = "denyAction"
  /\ ~Truthy(args.token)
  /\ op_pc = "returned"
  /\ Len(requests) = 2
  /\ requests[2].body.token = "tokenS"
  /\ requests[2].body.approve = FALSE

Submissions == SelectSeq(requests, LAMBDA r : r.method = "POST" /\ r.path = "/v1/actions")

\* The context the replay of the fetched original is expected to carry.
ExpectedReplayContext(o, ctx) ==
  LET base == IF o.context.present THEN o.context.map ELSE <<>> IN
  /\ DOMAIN ctx = DOMAIN base \cup {"replayed_from", "replay"}
  /\ ctx["replayed_from"] = o.id
  /\ ctx["replay"] = "true"
  /\ \A k \in DOMAIN base \ {"replayed_from", "replay"} : ctx[k] = base[k]

\* C13: replayAction submits a new action only when the fetched original
\* has status allowed, approved or succeeded, and then submits exactly one,
\* with the original's agent_id, tool, operation and params and with the
\* original context plus replayed_from = the original id and replay = true
\* (overriding such keys); for every other status it fails with a usage
\* error and submits nothing.
C13_ReplayAction ==
  op = "replayAction" =>
    /\ Len(Submissions) <= 1
    /\ \A i \in 1 .. Len(requests) : requests[i].method = "POST" => requests[i].path = "/v1/actions"
    /\ Len(Submissions) = 1 =>
         /\ original.status \in {"allowed", "approved", "succeeded"}
         /\ Submissions[1].body.agent_id = original.agent_id
         /\ Submissions[1].body.tool = original.tool
         /\ Submissions[1].body.operation = original.operation
         /\ Submissions[1].body.params = original.params
         /\ ExpectedReplayContext(original, Submissions[1].body.context)
    /\ original # NoFields =>
         IF original.status \in {"allowed", "approved", "succeeded"}
         THEN Len(Submissions) = 1
         ELSE /\ op_pc = "thrown"
              /\ op_error = FarameshError(0)
              /\ Len(Submissions) = 0

\* A succeeded original whose context already had replay and replayed_from
\* keys was replayed.
C13_Witness ==
  /\ op = "replayAction"
  /\ op_pc = "returned"
  /\ original.status = "succeeded"
  /\ original.context.present
  /\ DOMAIN original.context.map = {"user", "replayed_from", "replay"}
  /\ Len(Submissions) = 1
  /\ Submissions[1].body.context["replay"] = "true"

\* The list a finished non-strict batch returns.
Returned == IF op = "submitActions" THEN results ELSE successes

\* Request i (from 0) of the batch was submitted and its makeRequest returned.
Succeeded(i) == responses[i + 1] = "returned"

\* C14: a non-strict batch of n requests returns exactly n entries, entry i
\* being the Action of request i or the error entry of request i; every
\* request is submitted, in order, whichever of them fail.
C14_NonStrictBatch ==
  (op \in BatchOps /\ ~args.raiseOnError /\ op_pc \in {"returned", "thrown"}) =>
    /\ op_pc = "returned"
    /\ Len(Submissions) = args.n
    /\ Len(requests) = args.n
    /\ Len(Returned) = args.n
    /\ \A i \in 0 .. args.n - 1 :
         /\ Submissions[i + 1].body.index = i
         /\ Returned[i + 1].index = i
         /\ Returned[i + 1].kind = (IF Succeeded(i) THEN "action" ELSE "error")

\* Three requests, the second failing: [success, error, success].
C14_Witness ==
  /\ op \in BatchOps
  /\ ~args.raiseOnError
  /\ op_pc = "returned"
  /\ args.n = 3
  /\ Len(Returned) = 3
  /\ Returned[1].kind = "action"
  /\ Returned[2].kind = "error"
  /\ Returned[3].kind = "action"

\* The indices, in order, of the requests that succeeded / failed.
RECURSIVE IndicesWhere(_, _)
IndicesWhere(n, ok) ==
  IF n = 0 THEN <<>>
  ELSE IndicesWhere(n - 1, ok)
       \o (IF Succeeded(n - 1) = ok THEN <<n - 1>> ELSE <<>>)

\* C15: strict submitActionsBulk submits every request, and after the last
\* one raises a single FarameshBatchError iff some request failed; the
\* error's successes are the Actions of the succeeded requests in order,
\* its errors one entry per failed request with that request's index; with
\* no failure the n Actions are returned.
C15_StrictBatch ==
  (op = "submitActionsBulk" /\ args.raiseOnError) =>
    /\ op_pc = "awaitRequest" => Len(requests) <= args.n
    /\ op_pc \in {"returned", "thrown"} =>
         /\ Len(Submissions) = args.n
         /\ Len(responses) = args.n
         /\ \A i \in 0 .. args.n - 1 : Submissions[i + 1].body.index = i
         /\ (op_pc = "thrown") = (\E i \in 0 .. args.n - 1 : ~Succeeded(i))
         /\ op_pc = "thrown" =>
              LET oks == IndicesWhere(args.n, TRUE)
                  bad == IndicesWhere(args.n, FALSE) IN
              /\ op_error.name = "FarameshBatchError"
              /\ Len(op_error.successes) = Len(oks)
              /\ \A k \in 1 .. Len(oks) :
                   /\ op_error.successes[k].kind = "action"
                   /\ op_error.successes[k].index = oks[k]
              /\ Len(op_error.errors) = Len(bad)
              /\ \A k \in 1 .. Len(bad) :
                   /\ op_error.errors[k].kind = "error"
                   /\ op_error.errors[k].index = bad[k]
              /\ Len(op_error.successes) + Len(op_error.errors) = args.n
         /\ op_pc = "returned" =>
              /\ Len(successes) = args.n
              /\ \A i \in 0 .. args.n - 1 :
                   successes[i + 1].kind = "action" /\ successes[i + 1].index = i

\* Three requests in strict mode, the second failing: one itemized failure
\* at index 1.
C15_Witness ==
  /\ op = "submitActionsBulk"
  /\ args.raiseOnError
  /\ op_pc = "thrown"
  /\ args.n = 3
  /\ Len(op_error.errors) = 1
  /\ op_error.errors[1].index = 1
  /\ Len(op_error.successes) = 2

\* Agreement of the original and the replayed value of a field: outcome and
\* reason_code agree when both are blank (absent, null or "") or equal; the
\* hashes and the runtime version agree when they are identical.
Blank(v) == v \in {"undefined", "null", ""}
TextAgrees(a, b) == (Blank(a) /\ Blank(b)) \/ a = b
Agrees(field) ==
  IF field \in {"outcome", "reason_code"}
  THEN TextAgrees(original[field], replayed[field])
  ELSE original[field] = replayed[field]

ComparedFields ==
  <<"outcome", "reason_code", "request_hash", "policy_hash", "profile_hash", "runtime_version">>
MismatchEntry ==
  [outcome |-> "outcome", reason_code |-> "reason_code",
   request_hash |-> "request_hash mismatch", policy_hash |-> "policy_hash mismatch",
   profile_hash |-> "profile_hash mismatch", runtime_version |-> "runtime_version"]

\* The entries of the disagreeing fields among the first n, in order.
RECURSIVE ExpectedMismatches(_)
ExpectedMismatches(n) ==
  IF n = 0 THEN <<>>
  ELSE ExpectedMismatches(n - 1)
       \o (IF Agrees(ComparedFields[n]) THEN <<>> ELSE <<MismatchEntry[ComparedFields[n]]>>)

\* C16: replayDecision returns success = true iff the original and the
\* fresh decision agree on all six fields, i.e. iff the mismatch list is
\* empty; the list has one entry per disagreeing field in the fixed order,
\* and each of the four match flags is true iff its field agrees.
C16_ReplayDecisionCompares ==
  (op = "replayDecision" /\ op_pc = "returned") =>
    /\ replayResult.success = (\A n \in 1 .. Len(ComparedFields) : Agrees(ComparedFields[n]))
    /\ replayResult.success = (Len(replayResult.mismatches) = 0)
    /\ replayResult.mismatches = ExpectedMismatches(Len(ComparedFields))
    /\ replayResult.requestHashMatch = Agrees("request_hash")
    /\ replayResult.policyHashMatch = Agrees("policy_hash")
    /\ replayResult.profileHashMatch = Agrees("profile_hash")
    /\ replayResult.runtimeVersionMatch = Agrees("runtime_version")

\* Only the request_hash differs: success = false and the single entry
\* "request_hash mismatch".
C16_Witness ==
  /\ op = "replayDecision"
  /\ op_pc = "returned"
  /\ original.request_hash = "a"
  /\ replayed.request_hash = "b"
  /\ ~replayResult.success
  /\ replayResult.mismatches = <<"request_hash mismatch">>

GateOps == {"gateDecide", "executeIfAllowed", "replayDecision"}

\* C17: gateDecide, executeIfAllowed and replayDecision never send a POST
\* other than POST /v1/gate/decide (their other requests are GETs), so they
\* neither create an action nor change one.
C17_GateOpsDoNotSubmit ==
  (op \in GateOps /\ mr_pc # "idle") =>
    /\ method = "POST" => path = "/v1/gate/decide"
    /\ method \in {"GET", "POST"}
    /\ \A i \in 1 .. Len(requests) :
         requests[i].method = "POST" => requests[i].path = "/v1/gate/decide"
    /\ (op \in {"gateDecide", "executeIfAllowed"} \/ op_pc = "awaitDecide") =>
         method = "POST" /\ path = "/v1/gate/decide"

\* replayDecision has resolved the original and its re-decision returned.
C17_Witness ==
  /\ op = "replayDecision"
  /\ op_pc = "returned"
  /\ Len(requests) = 2
  /\ requests[2].path = "/v1/gate/decide"
  /\ mr_pc = "returned"

\* C18: when the executor invoked by executeIfAllowed fails,
\* executeIfAllowed still returns: the result carries the decision,
\* executed = false and the failure message; executed is true iff the
\* executor was invoked and returned normally, and then executionResult is
\* its return value.
C18_ExecutorFailureCaptured ==
  (op = "executeIfAllowed" /\ executorOutcome # "none") =>
    /\ op_pc = "returned"
    /\ result.decision = responseData
    /\ result.executed = (executorOutcome = "resolves")
    /\ result.executed => result.executionResult
    /\ executorOutcome # "resolves" => result.executionError

\* The flow the transport behaviour alone prescribes for the attempts made
\* so far: every attempt but the last asked for a retry.
AllRetriedBefore(n) ==
  \A i \in 1 .. n - 1 : Handle(outcomes[i], i - 1, config, method, path).next = "retry"

\* C19: a failure of an instrumentation callback never changes the request
\* flow: whether the callbacks are absent, return or throw, a finished
\* makeRequest has made the attempts and the backoff sleeps, and ends with
\* the return value or the error, that the transport's answers prescribe.
C19_CallbacksDoNotChangeFlow ==
  /\ mr_pc \in {"inflight", "backoff"} => thrown = NoError
  /\ mr_pc \in {"returned", "thrown"} =>
       /\ Len(outcomes) >= 1
       /\ LET n == Len(outcomes)
              h == Handle(outcomes[n], n - 1, config, method, path) IN
          /\ AllRetriedBefore(n)
          /\ h.next = (IF mr_pc = "returned" THEN "return" ELSE "throw")
          /\ thrown = h.error
          /\ mr_pc = "returned" => responseData = outcomes[n].data
          /\ Len(delays) = n - 1
          /\ \A i \in 1 .. n - 1 : delays[i] = WaitTime(config, i - 1)

\* With all three callbacks throwing, a request was retried after a 5xx
\* (onError threw) and then returned (onRequestEnd threw).
C19_Witness ==
  /\ callbacks = [onRequestStart |-> "throws", onRequestEnd |-> "throws", onError |-> "throws"]
  /\ mr_pc = "returned"
  /\ Len(outcomes) = 2
  /\ calls.onRequestStart = 1
  /\ calls.onError = 1
  /\ calls.onRequestEnd = 1

Dispatched == buffered' = buffered - 1

\* C21 as stated: a parsed event is dropped only when both filters are
\* supplied and it fails one of them; in every other case it reaches the
\* handler.  An event that does not parse is dropped, the stream stays open.
C21_Original ==
  [][Dispatched =>
       /\ readyState' = readyState
       /\ (handled' = handled + 1) <=>
            /\ message'.parses
            /\ (options.actionId /\ options.eventTypes) =>
                 (message'.actionMatches /\ message'.type = "listed")
       /\ handled' \in {handled, handled + 1}]_vars

\* C21: a parsed event reaches the handler exactly when it passes every
\* filter that was supplied, each on its own: the action-id filter, and the
\* event-type filter, which an event without a type fails.  An event that
\* does not parse is dropped without a handler call, and no dispatch closes
\* the stream.
C21_EventFiltering ==
  [][Dispatched =>
       /\ readyState' = readyState
       /\ closedBy' = closedBy
       /\ IF /\ message'.parses
             /\ options.actionId => message'.actionMatches
             /\ options.eventTypes => message'.type = "listed"
          THEN handled' = handled + 1
          ELSE handled' = handled]_vars

\* Only the action-id filter was supplied; a parsed event for another
\* action was dropped and the stream is still open.
C21_Witness ==
  /\ options.actionId
  /\ ~options.eventTypes
  /\ message.parses
  /\ ~message.actionMatches
  /\ handled = 0
  /\ readyState = "open"

\* Status s has no outgoing transition.
Absorbing(s) == ~\E t \in ActionStatus : <<s, t>> \in Lifecycle

\* C22: under the lifecycle the statuses seen by successive fetches of one
\* action never come back to a status that was left; the statuses without an
\* outgoing transition are exactly those on which waitForCompletion returns,
\* and once one of them has been fetched the action stays in it.
C22_LifecycleMonotonic ==
  /\ \A i, j, k \in DOMAIN observed :
       (i < j /\ j < k /\ observed[i] = observed[k]) => observed[j] = observed[i]
  /\ \A s \in ActionStatus : Absorbing(s) <=> s \in CompletedStatuses
  /\ \A i \in DOMAIN observed :
       observed[i] \in CompletedStatuses => (i = Len(observed) /\ serverStatus = observed[i])

\* Four fetches saw the action go from pending_approval through approved and
\* executing to succeeded.
C22_Witness == observed = <<"pending_approval", "approved", "executing", "succeeded">>

\* The permutations of 1..n.
Perms(n) == {f \in [1 .. n -> 1 .. n] : \A i, j \in 1 .. n : f[i] = f[j] => i = j}

RECURSIVE Reorderings(_)
\* The values equal to v up to the insertion order of the keys of the
\* mappings in it, at every depth.
Reorderings(v) ==
  IF v.t \notin {"array", "object"} THEN {v}
  ELSE LET n == Len(v.items)
           choices == {s \in [1 .. n -> UNION {Reorderings(v.items[i]) : i \in 1 .. n}] :
                         \A i \in 1 .. n : s[i] \in Reorderings(v.items[i])}
       IN IF v.t = "array" THEN {[v EXCEPT !.items = s] : s \in choices}
          ELSE {[v EXCEPT !.keys = [i \in 1 .. n |-> v.keys[f[i]]],
                          !.items = [i \in 1 .. n |-> s[f[i]]]] :
                  f \in Perms(n), s \in choices}

\* The keys of mapping v arranged in ascending order.
Ascending(v) ==
  CHOOSE s \in {[i \in DOMAIN v.keys |-> v.keys[f[i]]] : f \in Perms(Len(v.keys))} :
    \A i, j \in DOMAIN s : i < j => KeyLess(s[i], s[j])

\* The rendering "key":value of the entries of mapping v in key order keys,
\* and of the items of sequence v in their order.
Entries(v, keys) ==
  [i \in DOMAIN keys |-> SerializeString(keys[i]) \o <<":">> \o Canonicalize(Get(v, keys[i])).text]
Elements(v) == [i \in DOMAIN v.items |-> Canonicalize(v.items[i]).text]

\* C23: every reordering of the keys of the mappings in the value, at any
\* depth, has the same canonical string and the same hash; a mapping is
\* rendered with its keys ascending, a sequence with its elements in their
\* own order.
C23_KeyOrderIrrelevant ==
  (op \in {"canonicalize", "computeHash"} /\ op_pc = "returned") =>
    /\ \A q \in Reorderings(payload) : Apply(op, q) = Text(canonical)
    /\ (op = "canonicalize" /\ payload.t = "object") =>
         canonical = <<"{">> \o Join(Entries(payload, Ascending(payload))) \o <<"}">>
    /\ (op = "canonicalize" /\ payload.t = "array") =>
         canonical = <<"[">> \o Join(Elements(payload)) \o <<"]">>

\* A mapping inserted as "ab", "B", holding a mapping inserted as "a", "B"
\* and a sequence, was canonicalized.
C23_Witness ==
  /\ op = "canonicalize"
  /\ op_pc = "returned"
  /\ payload = Obj(<< <<"a", "b">>, <<"B">> >>,
                   << Obj(<< <<"a">>, <<"B">> >>, << Str(<<"b">>), Num(FALSE, <<"1">>, 1) >>),
                      Arr(<< Str(<<"b">>), Num(FALSE, <<"1">>, 1) >>) >>)

RECURSIVE LeadingZeros(_)
LeadingZeros(s) == IF s # <<>> /\ s[1] = "0" THEN 1 + LeadingZeros(Tail(s)) ELSE 0

\* The number a plain decimal string denotes, in the form of Num.
Denoted(text) ==
  LET neg == text # <<>> /\ text[1] = "-"
      body == IF neg THEN Tail(text) ELSE text
      int == Before(body, ".")
      all == int \o After(body, ".")
      lz == LeadingZeros(all)
      digits == DropZeros(SliceFrom(all, lz))
  IN IF digits = <<>> THEN Node("zero") ELSE Num(neg, digits, Len(int) - lz)

\* C24: the canonical form of a finite number has no exponent marker, no
\* trailing fractional zero and no trailing decimal point, and denotes the
\* number itself.
C24_ExactDecimalExpansion ==
  (op = "canonicalize" /\ payload.t \in {"number", "zero"}) =>
    /\ op_pc = "returned"
    /\ ~Includes(canonical, "e") /\ ~Includes(canonical, "E")
    /\ Includes(canonical, ".") => canonical[Len(canonical)] \notin {"0", "."}
    /\ Denoted(canonical) = (IF payload.t = "zero" THEN Node("zero") ELSE payload)

RECURSIVE ContainsNonFinite(_)
ContainsNonFinite(v) ==
  \/ v.t \in {"NaN", "Infinity"}
  \/ \E i \in DOMAIN v.items : ContainsNonFinite(v.items[i])

\* C25: canonicalize, computeHash and computeRequestHash of a value that is
\* or contains NaN, Infinity or -Infinity throw the canonicalization error
\* and build no string.
C25_NonFiniteRejected ==
  (op \in Canonicalizers /\ ContainsNonFinite(payload)) =>
    /\ op_pc = "thrown"
    /\ op_error = CanonicalizeError
    /\ canonical = <<>>

\* The top-level fields of p that are neither in the ephemeral set nor
\* underscore-prefixed, as a function from key to value.
Hashed(p) ==
  LET keep == {i \in DOMAIN p.keys : ~Excluded(p.keys[i])}
  IN [k \in {p.keys[i] : i \in keep} |-> Get(p, k)]

\* p without its ephemeral and underscore-prefixed fields.
Stripped(p) ==
  LET keep == {i \in DOMAIN p.keys : ~Excluded(p.keys[i])}
  IN Obj(Pick(p.keys, keep, 1), Pick(p.items, keep, 1))

\* C26: the request hash of a payload is that of the payload stripped of
\* its ephemeral and underscore-prefixed fields, so payloads that differ
\* in such fields only have the same hash; payloads with the same hashed
\* fields and a different value in one of them have different canonical
\* strings.
C26_EphemeralFieldsIgnored ==
  (op = "computeRequestHash" /\ op_pc = "returned") =>
    /\ ComputeRequestHash(Stripped(payload)) = Text(canonical)
    /\ \A q \in PayloadInputs :
         /\ Hashed(q) = Hashed(payload) => ComputeRequestHash(q) = Text(canonical)
         /\ (DOMAIN Hashed(q) = DOMAIN Hashed(payload) /\ Hashed(q) # Hashed(payload)) =>
              ComputeRequestHash(q) # Text(canonical)

\* C27: when a fetch of blockUntilApproved sees the action denied, the call
\* throws FarameshDeniedError, whose message carries the reason of that
\* snapshot when it has one, whatever was fetched before; the call never
\* returns a denied action.
C27_DeniedRaisesWithReason ==
  /\ (op = "blockUntilApproved" /\ status = "denied") =>
       /\ op_pc = "thrown"
       /\ op_error.name = "FarameshDeniedError"
       /\ responseData.reason # "none" => op_error.reports = responseData.reason
  /\ (op = "blockUntilApproved" /\ op_pc = "returned") => op_result.status # "denied"

\* The second fetch found the action denied as "too risky".
C27_Witness ==
  /\ op = "blockUntilApproved"
  /\ polls = 2
  /\ status = "denied"
  /\ op_error = FarameshDeniedError("too risky")

\* C28 as stated: against the statuses pending_approval, executing,
\* succeeded, one per fetch, a waitForCompletion that does not time out
\* returns the succeeded action after exactly two getAction calls.
C28_Original ==
  (op = "waitForCompletion" /\ op_pc = "returned") =>
    /\ op_result.status = "succeeded"
    /\ polls = 2

\* C28: against the statuses pending_approval, executing, succeeded, one
\* per fetch, waitForCompletion ends only by returning or by its deadline;
\* when it returns it returns the succeeded action, after exactly three
\* getAction calls, the first at once and one after each of two sleeps.
C28_ThreeFetchesTwoSleeps ==
  op = "waitForCompletion" =>
    /\ op_pc = "returned" =>
         /\ op_result.status = "succeeded"
         /\ op_result = responseData
         /\ polls = 3
         /\ elapsed >= 2 * pollInterval
    /\ op_pc = "thrown" =>
         /\ op_error.name = "FarameshTimeoutError"
         /\ elapsed > timeout
         /\ polls < 3
    /\ op_pc = "sleeping" => polls \in {1, 2} /\ status = MockStatuses[polls]

\* The third fetch returned the succeeded action within the timeout.
C28_Witness ==
  /\ op = "waitForCompletion"
  /\ op_pc = "returned"
  /\ op_result.status = "succeeded"
  /\ polls = 3
  /\ elapsed <= timeout

\* A polling operation ended at its deadline test: its last fetch returned
\* and did not end the loop by itself.
WaitTimedOut ==
  /\ Polling
  /\ op_pc = "thrown"
  /\ mr_pc = "returned"
  /\ op = "blockUntilApproved" => status # "denied"

\* C29 as stated: a polling operation that ends at its deadline throws the
\* timeout error, and the error reports the status last fetched.
C29_Original ==
  WaitTimedOut =>
    /\ op_error.name = "FarameshTimeoutError"
    /\ op_error.reports = status

\* C29: a polling operation that ends at its deadline throws the timeout
\* error; waitForCompletion's error reports the status last fetched,
\* blockUntilApproved's error reports no status.
C29_TimeoutErrorDistinct ==
  WaitTimedOut =>
    /\ op_error.name = "FarameshTimeoutError"
    /\ elapsed > timeout
    /\ op = "waitForCompletion" => op_error.reports = status
    /\ op = "blockUntilApproved" => op_error.reports = "none"

\* blockUntilApproved ran into its deadline after having fetched
\* pending_approval twice.
C29_Witness ==
  /\ WaitTimedOut
  /\ op = "blockUntilApproved"
  /\ polls = 2
  /\ status = "pending_approval"

\* submitAndWait returned after its submission came back pending_approval.
ReturnedAfterPending ==
  /\ op = "submitAndWait"
  /\ op_pc = "returned"
  /\ original.status = "pending_approval"

\* The composite operation issued the approval POST.
ApprovalIssued == \E i \in DOMAIN requests : requests[i].path = Endpoint("approval").path

\* C30: when submitAndWait is called with autoApprove = true and the
\* submission comes back pending_approval, a returning call has issued the
\* approval and hands back a completed action.
C30_AutoApproveHonoured ==
  (ReturnedAfterPending /\ submitConfig.autoApprove) =>
    /\ ApprovalIssued
    /\ op_result.status \in CompletedStatuses

\* The approval POST of a token-less call is on its way.
PostAfterFetch ==
  /\ op \in ApprovalOps
  /\ ~Truthy(args.token)
  /\ op_pc = "awaitRequest"

\* C31: once the fetch of a token-less approveAction / denyAction has
\* returned pending_approval with a token, the client's next step sends
\* the approval POST with that token whatever the server holds by then,
\* and the POST in flight rests on the status fetched, not on a re-check.
C31_NoRecheckBeforePost ==
  [][/\ (/\ op \in ApprovalOps
         /\ op_pc = "awaitFetch"
         /\ op_pc' # op_pc
         /\ mr_pc = "returned"
         /\ responseData.status = "pending_approval"
         /\ Truthy(original'.approval_token)) =>
          /\ op_pc' = "awaitRequest"
          /\ mr_pc' = "inflight"
          /\ path' = Endpoint("approval").path
          /\ requests' = Append(requests, [method |-> "POST", path |-> Endpoint("approval").path,
                                          body |-> [kind |-> "approval",
                                                    token |-> original'.approval_token,
                                                    approve |-> (op = "approveAction")]])
     /\ PostAfterFetch' =>
          /\ original'.status = "pending_approval"
          /\ Len(requests') = 2
          /\ requests'[1].method = "GET"]_vars

\* The stale POST: in flight with the fetched token after the other
\* approver has decided the action.
C31_Witness ==
  /\ PostAfterFetch
  /\ mr_pc = "inflight"
  /\ original.status = "pending_approval"
  /\ serverStatus \in {"approved", "denied"}
  /\ requests[Len(requests)].body.token = original.approval_token

\* A request is between its first attempt and its settling.
InFlight == mr_pc \in {"inflight", "backoff"}

\* C32: in a batch submission a request is issued only when every request
\* issued before it has settled, retries and backoff sleeps included, and
\* the one request in flight is the one of the loop's current index.
C32_OneSubmissionInFlight ==
  [][op' \in BatchOps =>
       /\ Len(requests') = Len(requests) + 1 =>
            /\ ~InFlight
            /\ Len(responses') = Len(requests)
            /\ attempt' = 0
       /\ Len(requests') - Len(responses') \in {0, 1}
       /\ InFlight' =>
            /\ Len(requests') = Len(responses') + 1
            /\ requests'[Len(requests')].body.index = index']_vars

\* The second request of a batch sleeps in backoff after the first one
\* failed.
C32_Witness ==
  /\ op \in BatchOps
  /\ Len(requests) = 2
  /\ responses = <<"thrown">>
  /\ mr_pc = "backoff"

\* A configure call took place in this step.
ConfigureStep == globalConfig' # globalConfig \/ lastOptions' # lastOptions

\* makeRequest started in this step.
RequestStarts == client' # client \/ (~InFlight /\ InFlight')

\* The request in flight goes on with what it read when it started.
SnapshotKept ==
  /\ (InFlight /\ InFlight') =>
       /\ config' = config
       /\ callbacks' = callbacks
       /\ client' = client
  /\ InFlight' =>
       /\ Len(outcomes') <= config'.maxRetries
       /\ \A i \in DOMAIN delays' :
            delays'[i] = config'.retryBackoffFactor * Pow2(i - 1) * MsPerSecond
  /\ RequestStarts =>
       /\ config'.maxRetries = globalConfig.maxRetries
       /\ config'.retryBackoffFactor = globalConfig.retryBackoffFactor
       /\ client' = [baseUrl |-> globalConfig.baseUrl, token |-> globalConfig.token]
       /\ \A cb \in DOMAIN callbacks' : callbacks'[cb] = globalConfig[cb]

\* What the latest configure call alone determines of the configuration.
LastWriteWins ==
  /\ globalConfig'.baseUrl = IF Truthy(lastOptions'.baseUrl) THEN lastOptions'.baseUrl
                             ELSE DefaultBaseUrl
  /\ globalConfig'.token = lastOptions'.token
  /\ globalConfig'.retryBackoffFactor = lastOptions'.retryBackoffFactor
  /\ globalConfig'.maxRetries = IF lastOptions'.maxRetries > 0 THEN lastOptions'.maxRetries
                                ELSE DefaultMaxRetries

\* C33 as stated: a request keeps the configuration it read at its start,
\* and a configure call replaces the configuration as a whole, callbacks
\* included, with nothing taken from an earlier call.
C33_Original ==
  [][/\ SnapshotKept
     /\ ConfigureStep =>
          /\ LastWriteWins
          /\ \A cb \in DOMAIN callbacks : globalConfig'[cb] = lastOptions'[cb]]_vars

\* C33: a request keeps the configuration it read at its start, and a
\* configure call replaces base URL, token and retry policy as a whole,
\* while a callback it does not supply is carried over from the
\* configuration it replaces.
C33_SnapshotPerRequest ==
  [][/\ SnapshotKept
     /\ ConfigureStep =>
          /\ LastWriteWins
          /\ \A cb \in DOMAIN callbacks :
               globalConfig'[cb] = IF lastOptions'[cb] # "absent" THEN lastOptions'[cb]
                                   ELSE globalConfig[cb]]_vars

\* A request retries with the retry bound and base URL it started with
\* after configure has replaced both and carried a callback over.
C33_Witness ==
  /\ InFlight
  /\ attempt >= 1
  /\ config.maxRetries # globalConfig.maxRetries
  /\ client.baseUrl # globalConfig.baseUrl
  /\ lastOptions.onRequestStart = "absent"
  /\ globalConfig.onRequestStart = "returns"

\* C35: configure called with maxRetries = n, n >= 0, makes n the retry
\* bound of the configuration and of the requests started under it, so
\* that with n = 0 a request makes one attempt and never backs off.
C35_MaxRetriesEffective ==
  [][/\ (ConfigureStep /\ lastOptions'.maxRetries >= 0) =>
          globalConfig'.maxRetries = lastOptions'.maxRetries
     /\ (RequestStarts /\ lastOptions.maxRetries >= 0) =>
          config'.maxRetries = lastOptions.maxRetries
     /\ (InFlight' /\ lastOptions'.maxRetries = 0 /\ config'.maxRetries = globalConfig'.maxRetries) =>
          /\ mr_pc' # "backoff"
          /\ outcomes' = <<>>]_vars

\* C34: once the time elapsed since the call of waitForCompletion exceeds
\* timeout, the loop starts no further fetch of the action, so no result
\* comes from a fetch started after the deadline.
C34_NoFetchAfterDeadline ==
  [][(/\ op = "waitForCompletion"
      /\ op_pc = "sleeping"
      /\ op_pc' = "awaitRequest") =>
       ~DeadlineExceeded(elapsed', timeout')]_vars

\* C36: with onRequestStart and onRequestEnd configured, a request has
\* invoked onRequestStart once from its start on, has not invoked
\* onRequestEnd while an attempt or a backoff sleep is pending, and has
\* invoked onRequestEnd once when makeRequest has returned or thrown.
C36_StartAndEndOnce ==
  (callbacks.onRequestStart # "absent" /\ callbacks.onRequestEnd # "absent" /\ mr_pc # "idle") =>
    /\ calls.onRequestStart = 1
    /\ InFlight => calls.onRequestEnd = 0
    /\ MRDone => calls.onRequestEnd = 1

\* The status submitAndWait has in hand: the one blockUntilApproved fetched
\* last, or the submitted one when it did not poll.
LastObserved == IF polls > 0 THEN status ELSE responseData.status

StartPath == Endpoint("startAction").path

C38_GovernedToolOnlySubmits ==
  [][/\ fnCalls' = 0
     /\ op' \in {"governedTool", "blockUntilApproved", "waitForCompletion"} =>
          /\ requests'[1].path = Endpoint("submitAction").path
          /\ requests'[1].body.operation =
               (IF toolConfig'.operation = "undefined" THEN FnName ELSE toolConfig'.operation)
          /\ \A i \in 2 .. Len(requests') : requests'[i].path = StartPath
          /\ Len(requests') <= 2
          /\ ~toolConfig'.blockUntilDone => (Len(requests') = 1 /\ polls' = 0)
     /\ (Len(requests') = Len(requests) + 1 /\ path' = StartPath) =>
          /\ toolConfig.blockUntilDone
          /\ LastObserved \in {"allowed", "approved"}]_vars

\* startAction is on its way after blockUntilApproved fetched approved,
\* under the function's own name.
C38_Witness ==
  /\ op = "governedTool"
  /\ op_pc = "awaitStart"
  /\ polls >= 1
  /\ status = "approved"
  /\ requests[1].body.operation = FnName
  /\ Len(requests) = 2

\* getAction(actionId) of the store.
Stored(id) == actions[id]

\* The snapshot most recently passed to addAction for id.
LatestAdded(id) ==
  LET at == {i \in DOMAIN added : added[i].id = id}
      last == CHOOSE i \in at : \A j \in at : j <= i
  IN added[last].snapshot

\* The addAction calls within the last maxSize ones since the last clear.
LastCalls == {i \in DOMAIN added : i > Len(added) - maxSize}

\* C39: every id of the recency list has a stored snapshot, and every id
\* added within the last maxSize addAction calls since the last clear is
\* stored with the snapshot most recently added for it.
C39_RecentIdsStored ==
  /\ \A i \in DOMAIN recent : Stored(recent[i]) # "undefined"
  /\ \A i \in LastCalls : Stored(added[i].id) = LatestAdded(added[i].id)

\* The ids that have a snapshot.
StoredIds == {id \in Ids : Stored(id) # "undefined"}

\* The latest call was listRecent.
Listed == listed # NoListing

\* C40: the recency list and the store hold at most maxSize entries, an
\* addAction on a full list drops the oldest id and appends the new one,
\* an addAction without an id throws and changes nothing, and listRecent
\* returns at most limit snapshots, those of the ids last recorded, the
\* latest first.
C40_BoundedFifoStore ==
  [][/\ Len(recent') <= maxSize'
     /\ Cardinality(StoredIds') <= maxSize'
     /\ (Len(added') = Len(added) + 1 /\ Len(recent) = maxSize /\ maxSize > 0) =>
          recent' = Append(Tail(recent), added'[Len(added')].id)
     /\ failed' => (actions' = actions /\ recent' = recent /\ added' = added)
     /\ Listed' =>
          /\ Len(listed'.result) <= listed'.limit
          /\ \A i \in DOMAIN listed'.result :
               /\ i <= Len(recent)
               /\ listed'.result[i].id = recent[Len(recent) + 1 - i]]_vars
====
